---- MODULE Spec2Model ----
(***************************************************************************)
(* OAuth login, account linking and cookie session of the task controller  *)
(* back end: the auth HTTP handlers (auth_handler.go), the identity        *)
(* linking usecase (AuthUsecase), the provider gateway (oauth.go) and the  *)
(* user / account repositories over the relational schema.                 *)
(*                                                                         *)
(* Every blocking call of a callback (token exchange, profile fetch, each  *)
(* SQL statement) is one step, so callbacks of different browsers          *)
(* interleave exactly where goroutines can.  The other handlers touch only *)
(* the request's cookie and are single steps.                              *)
(*                                                                         *)
(* Conventions: the empty string is "", a nil pointer / SQL NULL / missing *)
(* row is the empty set {} (a found row is a singleton), the zero time is  *)
(* 0.  A state token is modelled by the number of the GenerateStateToken   *)
(* call that produced it (32 random bytes never repeat); the token 0 is    *)
(* the empty string.  A user id is the number of the uuid.New() call that  *)
(* produced it.                                                            *)
(***************************************************************************)
EXTENDS Integers, Sequences, FiniteSets, TLC

\* ---------------------------------------------------------------- bounds
MaxCallbacks == 2
MaxLogins == 2
MaxTicks == 1
MaxEmails == 3
MaxPATs == 2

\* ------------------------------------------------------- input universes
Browsers == {"b1", "b2"}
Providers == {"google", "github"}
Emails == {"a@x.com", "b@x.com"}
Codes == {"", "code"}

\* oauth2.Token values the token endpoint may return: one with a refresh
\* token and an expiry, one with neither.
Tokens ==
    { [AccessToken |-> "at1", RefreshToken |-> "rt1", Expiry |-> 1],
      [AccessToken |-> "at2", RefreshToken |-> "", Expiry |-> 0] }

NoToken == [AccessToken |-> "", RefreshToken |-> "", Expiry |-> 0]

GoogleUser(id, email, verified) ==
    [ID |-> id, Email |-> email, VerifiedEmail |-> verified, Name |-> "Ann",
     Login |-> "", Picture |-> "pic-g"]

\* GoogleUserInfo values the userinfo endpoint may return: an account with a
\* verified and with an unverified address, a second account with the same
\* address and with another one.
GoogleProfiles ==
    { GoogleUser("g1", "a@x.com", TRUE), GoogleUser("g1", "a@x.com", FALSE),
      GoogleUser("g2", "a@x.com", TRUE), GoogleUser("g2", "b@x.com", TRUE) }

GithubUser(id, email, name) ==
    [ID |-> id, Email |-> email, VerifiedEmail |-> FALSE, Name |-> name,
     Login |-> "ann-gh", Picture |-> "pic-h"]

\* GithubUserInfo values the user endpoint may return: a public e-mail and
\* a display name, or neither (Email "" is a private e-mail, Name "" an
\* unset display name).
GithubProfiles ==
    { GithubUser(7, "a@x.com", "Ann H"), GithubUser(7, "", "") }

NoInfo ==
    [ID |-> "", Email |-> "", VerifiedEmail |-> FALSE, Name |-> "",
     Login |-> "", Picture |-> ""]

GithubEmail(e, p, v) == [Email |-> e, Primary |-> p, Verified |-> v]

\* Answers of the e-mail list endpoint: ok = FALSE is a transport error or a
\* non-200 status, otherwise the decoded list.
GithubEmailLists ==
    { <<>>,
      <<GithubEmail("a@x.com", TRUE, FALSE)>>,
      <<GithubEmail("a@x.com", FALSE, TRUE)>>,
      <<GithubEmail("a@x.com", FALSE, TRUE), GithubEmail("b@x.com", TRUE, TRUE)>>,
      <<GithubEmail("b@x.com", TRUE, FALSE), GithubEmail("a@x.com", FALSE, FALSE)>> }

GithubEmailAnswers ==
    { [ok |-> TRUE, emails |-> l] : l \in GithubEmailLists }
        \cup { [ok |-> FALSE, emails |-> <<>>] }

\* ------------------------------------------------------- session constants
sessionKeyUserID == "user_id"
sessionKeyEmail == "email"
sessionKeyName == "name"
sessionKeyPicture == "picture"
sessionKeyExpiresAt == "expires_at"
oauthStateKey == "oauth_state"
sessionMaxAge == 60 * 60 * 24 * 7

\* session.Values of a request without a (valid) cookie: an empty map.
EmptyValues == [k \in {} |-> ""]

\* session.Values[k] = v
SetValue(values, k, v) ==
    [x \in DOMAIN values \cup {k} |-> IF x = k THEN v ELSE values[x]]

\* delete(session.Values, k)
DeleteValue(values, k) == [x \in DOMAIN values \ {k} |-> values[x]]

VARIABLES
    users,           \* table users
    google_account,  \* table google_account
    github_account,  \* table github_account
    cookie,          \* per browser: the values of its auth-session cookie
    req,             \* per browser: its callback request in flight
    resp,            \* the response sent by the last step, if any
    accepted,        \* the state tokens a callback has accepted so far
    started,         \* number of callback requests received so far
    nextState,       \* number of state tokens generated so far
    nextID,          \* number of uuids generated for users so far
    now,             \* time.Now().Unix()
    ticks,           \* number of clock advances so far
    secret,          \* CookieStore.secret
    saved,           \* the session values given to the last CookieStore.Save
    jar,             \* the value of the session cookie the browser holds
    got,             \* what the last CookieStore.Get returned, if any
    pat              \* the SavePAT / DeletePAT request in flight

vars ==
    <<users, google_account, github_account, cookie, req, resp,
      accepted, started, nextState, nextID, now, ticks,
      secret, saved, jar, got, pat>>

db == <<users, google_account, github_account>>

\* The state of the cookie codec.
codec == <<secret, saved, jar, got>>

\* ------------------------------------------------------------ persistence
\* A faulty UsersInsertOK: the table without UNIQUE on email.
UsersInsertOK_NoUniqueEmail(tbl, user) ==
    \A r \in tbl : r.id # user.id

\* users: id uuid PRIMARY KEY, email VARCHAR(255) UNIQUE NOT NULL.
UsersInsertOK(tbl, user) ==
    \A r \in tbl : r.id # user.id /\ r.email # user.email

\* <p>_account: PRIMARY KEY (provider, provider_account_id),
\* FOREIGN KEY (user_id) REFERENCES users(id).
AccountInsertOK(tbl, usersTbl, account) ==
    /\ \A r \in tbl :
          ~(r.provider = account.provider
            /\ r.provider_account_id = account.provider_account_id)
    /\ \E u \in usersTbl : u.id = account.user_id

\* SELECT ... FROM users WHERE id = $1 (the rows; {} is sql.ErrNoRows).
userRepo_FindByID(tbl, id) == { u \in tbl : u.id = id }

\* A faulty userRepo_FindByEmail: the statement compares the wrong column.
userRepo_FindByEmail_ByName(tbl, email) == { u \in tbl : u.name = email }

\* SELECT ... FROM users WHERE email = $1.
userRepo_FindByEmail(tbl, email) == { u \in tbl : u.email = email }

\* UPDATE users SET email, name, image_url WHERE id = $5.
userRepo_Update(tbl, user) ==
    { IF r.id = user.id
        THEN [r EXCEPT !.email = user.email, !.name = user.name,
                       !.image_url = user.image_url]
        ELSE r : r \in tbl }

\* A faulty accountRepo_FindByProviderAccountID: the statement's two
\* arguments are passed in the wrong order.
accountRepo_FindByProviderAccountID_Swapped(tbl, provider, id) ==
    { a \in tbl : a.provider = id /\ a.provider_account_id = provider }

\* SELECT ... FROM <p>_account WHERE provider = $1 AND provider_account_id = $2.
accountRepo_FindByProviderAccountID(tbl, provider, id) ==
    { a \in tbl : a.provider = provider /\ a.provider_account_id = id }

\* The key an UPDATE of an account matches rows by.
SameKey(r, account) ==
    /\ r.provider = account.provider
    /\ r.provider_account_id = account.provider_account_id

\* UPDATE google_account SET access_token, refresh_token, expires_at
\* WHERE provider = $5 AND provider_account_id = $6.
googleAccountRepo_Update(tbl, account) ==
    { IF SameKey(r, account)
        THEN [r EXCEPT !.access_token = account.access_token,
                       !.refresh_token = account.refresh_token,
                       !.expires_at = account.expires_at]
        ELSE r : r \in tbl }

\* UPDATE github_account SET access_token, refresh_token, expires_at,
\* pat_encrypted WHERE provider = $6 AND provider_account_id = $7.
githubAccountRepo_Update(tbl, account) ==
    { IF SameKey(r, account)
        THEN [r EXCEPT !.access_token = account.access_token,
                       !.refresh_token = account.refresh_token,
                       !.expires_at = account.expires_at,
                       !.pat_encrypted = account.pat_encrypted]
        ELSE r : r \in tbl }

\* --------------------------------------------------------- provider gateway
\* fmt.Sprintf("%d", n) for n >= 0.
RECURSIVE FormatInt(_)
FormatInt(n) ==
    LET digit == <<"0", "1", "2", "3", "4", "5", "6", "7", "8", "9">>[(n % 10) + 1]
    IN  IF n < 10 THEN digit ELSE FormatInt(n \div 10) \o digit

\* The first of the indices S in "for _, email := range emails", 0 when S
\* is empty.
FirstIndex(S) ==
    IF S = {} THEN 0 ELSE CHOOSE i \in S : \A j \in S : i <= j

\* A faulty IsPrimaryVerified: a primary entry counts whether verified or
\* not.
IsPrimaryVerified_PrimaryOnly(emails) ==
    { i \in 1..Len(emails) : emails[i].Primary }

\* The entries with email.Primary && email.Verified.
IsPrimaryVerified(emails) ==
    { i \in 1..Len(emails) : emails[i].Primary /\ emails[i].Verified }

\* The entries with email.Verified.
IsVerified(emails) == { i \in 1..Len(emails) : emails[i].Verified }

\* A faulty getGithubPrimaryEmail: without a verified entry the first
\* entry of the list is returned.
getGithubPrimaryEmail_AnyEntry(answer) ==
    LET pv == FirstIndex(IsPrimaryVerified(answer.emails))
        v  == FirstIndex(IsVerified(answer.emails))
    IN  IF ~answer.ok THEN [ok |-> FALSE, email |-> ""]
        ELSE IF pv # 0 THEN [ok |-> TRUE, email |-> answer.emails[pv].Email]
        ELSE IF v # 0 THEN [ok |-> TRUE, email |-> answer.emails[v].Email]
        ELSE IF Len(answer.emails) > 0
                THEN [ok |-> TRUE, email |-> answer.emails[1].Email]
                ELSE [ok |-> FALSE, email |-> ""]

\* getGithubPrimaryEmail: the first primary and verified entry, else the
\* first verified entry, else an error.
getGithubPrimaryEmail(answer) ==
    LET pv == FirstIndex(IsPrimaryVerified(answer.emails))
        v  == FirstIndex(IsVerified(answer.emails))
    IN  IF ~answer.ok THEN [ok |-> FALSE, email |-> ""]
        ELSE IF pv # 0 THEN [ok |-> TRUE, email |-> answer.emails[pv].Email]
        ELSE IF v # 0 THEN [ok |-> TRUE, email |-> answer.emails[v].Email]
        ELSE [ok |-> FALSE, email |-> ""]

\* GetGithubUserInfo after the user endpoint answered with profile: a profile
\* without e-mail takes the e-mail of getGithubPrimaryEmail when that succeeds.
GetGithubUserInfo(profile, answer) ==
    IF profile.Email = ""
       THEN LET r == getGithubPrimaryEmail(answer)
            IN  IF r.ok THEN [profile EXCEPT !.Email = r.email] ELSE profile
       ELSE profile

\* ---------------------------------------------------------------- usecase
\* The provider_account_id the usecase looks an identity up by.
ProviderAccountID(provider, info) ==
    IF provider = "github" THEN FormatInt(info.ID) ELSE info.ID

\* A faulty ProfileRejected: Google's verified_email is not looked at.
ProfileRejected_EmptyEmailOnly(provider, info) == info.Email = ""

\* handleGoogleCallback / handleGithubCallback: the check that rejects the
\* fetched profile before any lookup.
ProfileRejected(provider, info) ==
    IF provider = "google" THEN ~info.VerifiedEmail ELSE info.Email = ""

\* The display name stored for a profile: GitHub falls back to the login.
DisplayName(provider, info) ==
    IF provider = "github" /\ info.Name = "" THEN info.Login ELSE info.Name

\* A faulty RefreshUser: the e-mail is taken from the profile as well.
RefreshUser_TakesEmail(provider, user, info) ==
    [user EXCEPT !.email = info.Email,
                 !.name = DisplayName(provider, info),
                 !.image_url = info.Picture]

\* The returning path's refresh of the loaded user from the profile.
RefreshUser(provider, user, info) ==
    [user EXCEPT !.name = DisplayName(provider, info),
                 !.image_url = info.Picture]

\* A faulty RefreshAccount: the refresh token and the expiry are taken from
\* the new token even when it carries none.
RefreshAccount_Overwrite(account, token) ==
    [account EXCEPT !.access_token = token.AccessToken,
                    !.refresh_token = token.RefreshToken,
                    !.expires_at = token.Expiry]

\* The returning path's refresh of the loaded account from the new token.
RefreshAccount(account, token) ==
    [account EXCEPT
        !.access_token = token.AccessToken,
        !.refresh_token =
            IF token.RefreshToken # "" THEN token.RefreshToken ELSE @,
        !.expires_at = IF token.Expiry # 0 THEN token.Expiry ELSE @]

\* model.User built for a first login.
NewUser(id, provider, info) ==
    [id |-> id, email |-> info.Email, name |-> DisplayName(provider, info),
     image_url |-> info.Picture]

\* model.GoogleAccount / model.GithubAccount built for a first login via
\* the provider (pat_encrypted is a column of github_account only).
NewAccount(provider, userID, info, token) ==
    LET base ==
            [user_id |-> userID, provider |-> provider,
             provider_account_id |-> ProviderAccountID(provider, info),
             access_token |-> token.AccessToken,
             refresh_token |-> token.RefreshToken,
             expires_at |-> token.Expiry]
    IN  IF provider = "github"
           THEN [k \in DOMAIN base \cup {"pat_encrypted"} |->
                    IF k = "pat_encrypted" THEN "" ELSE base[k]]
           ELSE base

\* A faulty AuthenticatedValues: expires_at is the duration, not the time
\* after it.
AuthenticatedValues_DurationAsExpiry(values, user, t) ==
    DeleteValue(
        SetValue(SetValue(SetValue(SetValue(SetValue(values,
            sessionKeyUserID, user.id),
            sessionKeyEmail, user.email),
            sessionKeyName, user.name),
            sessionKeyPicture, user.image_url),
            sessionKeyExpiresAt, sessionMaxAge),
        oauthStateKey)

\* CreateSession and the handler's copy of it into session.Values, with the
\* pending state deleted.
AuthenticatedValues(values, user, t) ==
    DeleteValue(
        SetValue(SetValue(SetValue(SetValue(SetValue(values,
            sessionKeyUserID, user.id),
            sessionKeyEmail, user.email),
            sessionKeyName, user.name),
            sessionKeyPicture, user.image_url),
            sessionKeyExpiresAt, t + sessionMaxAge),
        oauthStateKey)

\* ---------------------------------------------------------- session store
\* Strings in the cookie codec are sequences of bytes (ASCII codes); Bytes
\* spells the strings the model uses.
Bytes(str) ==
    CASE str = "" -> <<>>
      [] str = "user_id" -> <<117, 115, 101, 114, 95, 105, 100>>
      [] str = "expires_at" ->
            <<101, 120, 112, 105, 114, 101, 115, 95, 97, 116>>
      [] str = "u1" -> <<117, 49>>
      [] str = "a\"\\" -> <<97, 34, 92>>
      [] str = "k1" -> <<107, 49>>
      [] str = "k2" -> <<107, 50>>
      [] str = "{" -> <<123>>
      [] str = "{\"user_id\":" ->
            <<123, 34, 117, 115, 101, 114, 95, 105, 100, 34, 58>>

\* The values a map[string]any holds: a string, an int64, or the float64
\* that encoding/json gives every number it decodes into an any.
GoString(bytes) == [type |-> "string", val |-> bytes]

GoInt64(n) == [type |-> "int64", val |-> n]

GoFloat64(n) == [type |-> "float64", val |-> n]

\* strconv's decimal digits of n >= 0.
RECURSIVE Digits(_)
Digits(n) ==
    IF n < 10 THEN <<48 + n>> ELSE Digits(n \div 10) \o <<48 + (n % 10)>>

\* json.Marshal of a string whose bytes are printable ASCII other than
\* < > &: quoted, with " and \ escaped by a backslash.
RECURSIVE Escaped(_)
Escaped(bytes) ==
    IF bytes = <<>>
       THEN <<>>
       ELSE (IF Head(bytes) \in {34, 92}
                THEN <<92, Head(bytes)>>
                ELSE <<Head(bytes)>>) \o Escaped(Tail(bytes))

\* json.Marshal of a value: a quoted string, or the decimal digits of an
\* integer (an integral float64 below 1e21 is written the same way).
MarshalValue(v) ==
    IF v.type = "string"
       THEN <<34>> \o Escaped(v.val) \o <<34>>
       ELSE IF v.val < 0 THEN <<45>> \o Digits(-v.val) ELSE Digits(v.val)

\* a < b in the byte order in which json.Marshal sorts the keys of a map.
RECURSIVE BytesLess(_, _)
BytesLess(a, b) ==
    IF b = <<>> THEN FALSE
    ELSE IF a = <<>> THEN TRUE
    ELSE IF Head(a) # Head(b) THEN Head(a) < Head(b)
    ELSE BytesLess(Tail(a), Tail(b))

\* json.Marshal of the members of values with the keys in keys, sorted.
RECURSIVE MarshalMembers(_, _)
MarshalMembers(values, keys) ==
    IF keys = {}
       THEN <<>>
       ELSE LET k == CHOOSE x \in keys :
                        \A y \in keys \ {x} : BytesLess(x, y)
                rest == keys \ {k}
            IN  <<34>> \o Escaped(k) \o <<34, 58>> \o MarshalValue(values[k])
                \o (IF rest = {} THEN <<>> ELSE <<44>>)
                \o MarshalMembers(values, rest)

\* json.Marshal(session.Values).
Marshal(values) ==
    <<123>> \o MarshalMembers(values, DOMAIN values) \o <<125>>

\* The result of a decoder: ok with a value, or an error.
Parsed(val, next) == [ok |-> TRUE, val |-> val, next |-> next]

ParseError == [ok |-> FALSE, val |-> <<>>, next |-> 0]

\* encoding/json scanning a string of data after its opening quote at
\* i - 1: up to the closing quote, \" and \\ unescaped; a control character
\* or the end of the data is an error.
RECURSIVE ScanString(_, _, _)
ScanString(data, i, acc) ==
    IF i > Len(data) \/ data[i] < 32 THEN ParseError
    ELSE IF data[i] = 34 THEN Parsed(acc, i + 1)
    ELSE IF data[i] = 92
       THEN IF i + 1 <= Len(data) /\ data[i + 1] \in {34, 92}
               THEN ScanString(data, i + 2, Append(acc, data[i + 1]))
               ELSE ParseError
    ELSE ScanString(data, i + 1, Append(acc, data[i]))

\* encoding/json scanning the digits of a number of data from i.
RECURSIVE ScanDigits(_, _, _)
ScanDigits(data, i, acc) ==
    IF i <= Len(data) /\ data[i] \in 48..57
       THEN ScanDigits(data, i + 1, 10 * acc + (data[i] - 48))
       ELSE Parsed(acc, i)

\* An integer of data at i: an optional minus sign, then 0 or digits that
\* do not start with 0.
ScanNumber(data, i) ==
    LET neg == data[i] = 45
        j == IF neg THEN i + 1 ELSE i
        n == ScanDigits(data, j, 0)
    IN  IF j > Len(data) \/ data[j] \notin 48..57 THEN ParseError
        ELSE IF data[j] = 48 /\ n.next # j + 1 THEN ParseError
        ELSE Parsed(IF neg THEN -n.val ELSE n.val, n.next)

\* A value of data at i, as json.Unmarshal stores it in an any: a string, or
\* a number as float64.
ScanValue(data, i) ==
    IF i > Len(data) THEN ParseError
    ELSE IF data[i] = 34
       THEN LET s == ScanString(data, i + 1, <<>>)
            IN  IF s.ok THEN Parsed(GoString(s.val), s.next) ELSE ParseError
    ELSE LET n == ScanNumber(data, i)
         IN  IF n.ok THEN Parsed(GoFloat64(n.val), n.next) ELSE ParseError

\* The members of an object of data from i, added to acc, up to the closing
\* brace, which ends the data.
RECURSIVE ScanMembers(_, _, _)
ScanMembers(data, i, acc) ==
    IF i > Len(data) \/ data[i] # 34 THEN ParseError
    ELSE LET k == ScanString(data, i + 1, <<>>)
         IN  IF ~k.ok \/ k.next > Len(data) \/ data[k.next] # 58
                THEN ParseError
                ELSE LET v == ScanValue(data, k.next + 1)
                         m == [x \in DOMAIN acc \cup {k.val} |->
                                  IF x = k.val THEN v.val ELSE acc[x]]
                     IN  IF ~v.ok \/ v.next > Len(data) THEN ParseError
                         ELSE IF data[v.next] = 44
                            THEN ScanMembers(data, v.next + 1, m)
                         ELSE IF data[v.next] = 125 /\ v.next = Len(data)
                            THEN Parsed(m, v.next + 1)
                         ELSE ParseError

\* json.Unmarshal(data, &values) for values a map[string]any, on the JSON
\* of an object with string and integer members and no white space.
Unmarshal(data) ==
    IF Len(data) < 2 \/ data[1] # 123 THEN ParseError
    ELSE IF data = <<123, 125>> THEN Parsed(EmptyValues, 3)
    ELSE ScanMembers(data, 2, EmptyValues)

\* The alphabet of base64.RawURLEncoding: A-Z a-z 0-9 - _
B64Char(n) ==
    IF n < 26 THEN 65 + n
    ELSE IF n < 52 THEN 97 + (n - 26)
    ELSE IF n < 62 THEN 48 + (n - 52)
    ELSE IF n = 62 THEN 45 ELSE 95

B64Alphabet == {B64Char(n) : n \in 0..63}

B64Index(c) == CHOOSE n \in 0..63 : B64Char(n) = c

\* base64.RawURLEncoding.EncodeToString: three bytes to four characters, no
\* padding.
RECURSIVE B64Encode(_)
B64Encode(bytes) ==
    LET a == bytes[1]
        b == bytes[2]
        c == bytes[3]
    IN  IF Len(bytes) = 0 THEN <<>>
        ELSE IF Len(bytes) = 1
           THEN <<B64Char(a \div 4), B64Char((a % 4) * 16)>>
        ELSE IF Len(bytes) = 2
           THEN <<B64Char(a \div 4), B64Char((a % 4) * 16 + b \div 16),
                  B64Char((b % 16) * 4)>>
        ELSE <<B64Char(a \div 4), B64Char((a % 4) * 16 + b \div 16),
               B64Char((b % 16) * 4 + c \div 64), B64Char(c % 64)>>
             \o B64Encode(SubSeq(bytes, 4, Len(bytes)))

\* The bytes of characters all in the alphabet: four characters to three
\* bytes; the bits left over in a last group of two or three are dropped.
RECURSIVE B64Bytes(_)
B64Bytes(chars) ==
    LET w == B64Index(chars[1])
        x == B64Index(chars[2])
        y == B64Index(chars[3])
        z == B64Index(chars[4])
    IN  IF Len(chars) = 0 THEN <<>>
        ELSE IF Len(chars) = 2 THEN <<w * 4 + x \div 16>>
        ELSE IF Len(chars) = 3
           THEN <<w * 4 + x \div 16, (x % 16) * 16 + y \div 4>>
        ELSE <<w * 4 + x \div 16, (x % 16) * 16 + y \div 4, (y % 4) * 64 + z>>
             \o B64Bytes(SubSeq(chars, 5, Len(chars)))

\* base64.RawURLEncoding.DecodeString: a character outside the alphabet
\* (padding included), or a last group of one character, is an error.
B64Decode(chars) ==
    IF \/ \E i \in 1..Len(chars) : chars[i] \notin B64Alphabet
       \/ Len(chars) % 4 = 1
       THEN ParseError
       ELSE Parsed(B64Bytes(chars), Len(chars) + 1)

\* HMAC-SHA256 of data under key, as an ideal MAC: the digest determines the
\* key and the data, so that two digests are equal only for the same key
\* and the same data.  Keys have one length.
HMAC(key, data) == key \o data

\* A faulty sign: the secret is not part of the signature.
sign_Unkeyed(key, data) == B64Encode(HMAC(<<>>, data))

\* CookieStore.sign with secret key.
sign(key, data) == B64Encode(HMAC(key, data))

\* CookieStore.encode: signature "." base64(JSON of the values).
encode(key, values) ==
    LET encoded == B64Encode(Marshal(values))
    IN  sign(key, encoded) \o <<46>> \o encoded

\* strings.SplitN(value, ".", 2): the index of the first "." of value, 0
\* when there is none (one part).
FirstDot(value) ==
    IF \E i \in 1..Len(value) : value[i] = 46
       THEN CHOOSE i \in 1..Len(value) :
               value[i] = 46 /\ \A j \in 1..(i - 1) : value[j] # 46
       ELSE 0

\* What decode returns: the session's values, or an error.
Decoded(values) == [err |-> "", values |-> values]

DecodeError(err) == [err |-> err, values |-> EmptyValues]

\* A faulty decode: the signature is not compared.
decode_Unverified(key, value) ==
    LET dot == FirstDot(value)
        encoded == SubSeq(value, dot + 1, Len(value))
        data == B64Decode(encoded)
        values == Unmarshal(data.val)
    IN  IF dot = 0 THEN DecodeError("invalid")
        ELSE IF ~data.ok THEN DecodeError("base64")
        ELSE IF ~values.ok THEN DecodeError("json")
        ELSE Decoded(values.val)

\* CookieStore.decode: ErrInvalidSession unless value is signature "."
\* encoded with the signature that sign gives encoded; then the errors of
\* base64 and JSON decoding; else the decoded values.
decode(key, value) ==
    LET dot == FirstDot(value)
        signature == SubSeq(value, 1, dot - 1)
        encoded == SubSeq(value, dot + 1, Len(value))
        data == B64Decode(encoded)
        values == Unmarshal(data.val)
    IN  IF dot = 0 THEN DecodeError("invalid")
        ELSE IF signature # sign(key, encoded) THEN DecodeError("invalid")
        ELSE IF ~data.ok THEN DecodeError("base64")
        ELSE IF ~values.ok THEN DecodeError("json")
        ELSE Decoded(values.val)

\* A faulty GetInt64: the case of float64 is missing.
GetInt64_NoFloat64(values, key) ==
    IF key \in DOMAIN values /\ values[key].type = "int64"
       THEN [ok |-> TRUE, val |-> values[key].val]
       ELSE [ok |-> FALSE, val |-> 0]

\* Session.GetInt64: the int64 of a float64 or an int64.
GetInt64(values, key) ==
    IF key \in DOMAIN values /\ values[key].type \in {"float64", "int64"}
       THEN [ok |-> TRUE, val |-> values[key].val]
       ELSE [ok |-> FALSE, val |-> 0]

\* Session.GetString.
GetString(values, key) ==
    IF key \in DOMAIN values /\ values[key].type = "string"
       THEN [ok |-> TRUE, val |-> values[key].val]
       ELSE [ok |-> FALSE, val |-> <<>>]

\* What CookieStore.Get returns: a session and a nil error.  invalid tells
\* whether the session is the fresh one that replaces a cookie decode
\* refused.
Session(values, invalid) ==
    [values |-> values, err |-> "", invalid |-> invalid]

\* A faulty Get: the error of decode is returned to the caller.
Get_ReturnsDecodeError(key, cookies) ==
    IF cookies = {}
       THEN Session(EmptyValues, FALSE)
       ELSE LET value == CHOOSE v \in cookies : TRUE
                session == decode(key, value)
            IN  [values |-> session.values, err |-> session.err,
                 invalid |-> session.err # ""]

\* CookieStore.Get with the request's cookie in jar ({} without one): a
\* fresh session without a cookie or when decode fails, else the decoded
\* one.
Get(key, cookies) ==
    IF cookies = {}
       THEN Session(EmptyValues, FALSE)
       ELSE LET value == CHOOSE v \in cookies : TRUE
                session == decode(key, value)
            IN  IF session.err # ""
                   THEN Session(EmptyValues, TRUE)
                   ELSE Session(session.values, FALSE)

\* ---------------------------------------------------------------- handler
\* A faulty StateAccepted: the pending state is read without the checks of
\* "!ok || savedState == \"\"", a missing one reading as the empty string.
StateAccepted_NoPendingCheck(values, state) ==
    state = (IF oauthStateKey \in DOMAIN values THEN values[oauthStateKey] ELSE 0)

\* A faulty StateAccepted: the comparison of the query's state with the
\* pending one is missing.
StateAccepted_NoComparison(values, state) ==
    /\ oauthStateKey \in DOMAIN values
    /\ values[oauthStateKey] # 0

\* Callback: the request's cookie holds a pending state and the query's
\* state equals it.
StateAccepted(values, state) ==
    /\ oauthStateKey \in DOMAIN values
    /\ values[oauthStateKey] # 0
    /\ state = values[oauthStateKey]

\* A browser with no callback in flight.
IdleReq ==
    [pc |-> "idle", provider |-> "", session |-> EmptyValues, state |-> 0,
     code |-> "", token |-> NoToken, info |-> NoInfo, rawEmail |-> "",
     emails |-> [ok |-> FALSE, emails |-> <<>>], account |-> {}, user |-> {},
     https |-> FALSE]

NoResponse ==
    [browser |-> "", handler |-> "", status |-> 0, error |-> "", cause |-> "",
     user_id |-> 0, session |-> {}, set_cookie |-> {}, location |-> {}]

\* The response of handler to browser b.  error is the front end's ?error=
\* parameter of a callback's redirect; cause names the statement that
\* returned it.
Response(b, handler, status, error, cause) ==
    [browser |-> b, handler |-> handler, status |-> status, error |-> error,
     cause |-> cause, user_id |-> 0, session |-> {}, set_cookie |-> {},
     location |-> {}]

\* A faulty GetAuthURL: the authorization URL carries no state parameter.
GetAuthURL_NoState(provider, state) ==
    [endpoint |-> provider, state |-> 0]

\* OAuthConfig.GetAuthURL: AuthCodeURL of the provider's configuration, the
\* provider's authorization endpoint with the state as a query parameter.
GetAuthURL(provider, state) ==
    [endpoint |-> provider, state |-> state]

\* The handlers the router binds to /auth/<provider>/login and
\* /auth/<provider>/callback.
LoginHandler(provider) ==
    IF provider = "google" THEN "Login" ELSE "LoginGithub"

CallbackHandler(provider) ==
    IF provider = "google" THEN "Callback" ELSE "CallbackGithub"

\* The callback of browser b ends without a session: http.Redirect to the
\* front end with ?error=<error>.
Redirect(b, error, cause) ==
    /\ resp' = Response(b, CallbackHandler(req[b].provider), 307, error, cause)
    /\ req' = [req EXCEPT ![b] = IdleReq]
    /\ UNCHANGED cookie

\* A faulty AuthFailed: the error of HandleCallback is answered with
\* http.Error, 500.
AuthFailed_InternalServerError(b, cause) ==
    /\ resp' = Response(b, CallbackHandler(req[b].provider), 500, "", cause)
    /\ req' = [req EXCEPT ![b] = IdleReq]
    /\ UNCHANGED cookie

\* HandleCallback returns an error: the handler redirects with auth_failed.
AuthFailed(b, cause) == Redirect(b, "auth_failed", cause)

\* The callback of b goes on as r.
Continue(b, r) ==
    /\ req' = [req EXCEPT ![b] = r]
    /\ resp' = NoResponse
    /\ UNCHANGED cookie

\* session.Options as Callback / CallbackGithub set them before session.Save:
\* the attributes of the cookie that the response sets.
CallbackOptions ==
    [MaxAge |-> sessionMaxAge, HttpOnly |-> TRUE, Secure |-> TRUE,
     SameSite |-> "Lax"]

\* The response of handler to b after the session is saved: the redirect to
\* the front end without an error, which sets the cookie.
LoggedIn(b, handler) ==
    [Response(b, handler, 307, "", "") EXCEPT !.set_cookie = {CallbackOptions}]

\* The tail of Callback / CallbackGithub after HandleCallback returned user:
\* the session values are written and saved; saveOK = FALSE is session.Save
\* returning an error.
SaveSession(b, r, user, saveOK) ==
    /\ req' = [req EXCEPT ![b] = IdleReq]
    /\ IF saveOK
          THEN /\ cookie' = [cookie EXCEPT ![b] =
                                AuthenticatedValues(r.session, user, now)]
               /\ resp' = LoggedIn(b, CallbackHandler(r.provider))
          ELSE /\ UNCHANGED cookie
               /\ resp' = Response(b, CallbackHandler(r.provider), 307,
                                   "session_failed", "save")

\* No SavePAT / DeletePAT request in flight; n counts the requests so far.
IdlePAT ==
    [pc |-> "idle", n |-> 0, browser |-> "", op |-> "", user_id |-> 0,
     value |-> "", account |-> {}]

InitWith(key) ==
    /\ users = {}
    /\ google_account = {}
    /\ github_account = {}
    /\ cookie = [b \in Browsers |-> EmptyValues]
    /\ req = [b \in Browsers |-> IdleReq]
    /\ resp = NoResponse
    /\ accepted = {}
    /\ started = 0
    /\ nextState = 0
    /\ nextID = 0
    /\ now = 0
    /\ ticks = 0
    /\ secret = key
    /\ saved = EmptyValues
    /\ jar = {}
    /\ got = {}
    /\ pat = IdlePAT

\* The server started with the secret "k1".
Init == InitWith(Bytes("k1"))

\* A faulty Login: the state is stored in a new session, not in the one of
\* the request's cookie.
Login_NewSession(b, provider, saveOK) ==
    /\ nextState < MaxLogins
    /\ nextState' = nextState + 1
    /\ IF saveOK
          THEN /\ cookie' = [cookie EXCEPT ![b] =
                                SetValue(EmptyValues, oauthStateKey, nextState')]
               /\ resp' = [Response(b, LoginHandler(provider), 307, "", "")
                             EXCEPT !.location =
                                 {GetAuthURL(provider, nextState')}]
          ELSE /\ UNCHANGED cookie
               /\ resp' = Response(b, LoginHandler(provider), 500, "", "save")
    /\ UNCHANGED <<db, req, accepted, started, nextID, now, ticks,
                   codec, pat>>

\* Login / LoginGithub: a fresh state token is stored in the session under
\* oauth_state, the session is saved and the browser is redirected to the
\* provider; saveOK = FALSE is session.Save returning an error (500).
Login(b, provider, saveOK) ==
    /\ nextState < MaxLogins
    /\ nextState' = nextState + 1
    /\ IF saveOK
          THEN /\ cookie' = [cookie EXCEPT ![b] =
                                SetValue(cookie[b], oauthStateKey, nextState')]
               /\ resp' = [Response(b, LoginHandler(provider), 307, "", "")
                             EXCEPT !.location =
                                 {GetAuthURL(provider, nextState')}]
          ELSE /\ UNCHANGED cookie
               /\ resp' = Response(b, LoginHandler(provider), 500, "", "save")
    /\ UNCHANGED <<db, req, accepted, started, nextID, now, ticks,
                   codec, pat>>

\* Callback / CallbackGithub receives a request: the session of the
\* request's cookie and the query's state and code; https tells whether the
\* request came over HTTPS (TLS, or X-Forwarded-Proto: https).
Callback(b, provider, state, code, https) ==
    /\ req[b].pc = "idle"
    /\ started < MaxCallbacks
    /\ started' = started + 1
    /\ req' = [req EXCEPT ![b] =
                  [IdleReq EXCEPT !.pc = "validate", !.provider = provider,
                                  !.session = cookie[b], !.state = state,
                                  !.code = code, !.https = https]]
    /\ resp' = NoResponse
    /\ UNCHANGED <<db, cookie, accepted, nextState, nextID, now, ticks,
                   codec, pat>>

\* Callback / CallbackGithub up to the call of HandleCallback: the state
\* check, then the code check.
ValidateState(b) ==
    /\ req[b].pc = "validate"
    /\ LET r == req[b]
       IN  IF ~StateAccepted(r.session, r.state)
              THEN /\ Redirect(b, "invalid_state", "state")
                   /\ UNCHANGED accepted
              ELSE /\ accepted' = accepted \cup {r.state}
                   /\ IF r.code = ""
                         THEN Redirect(b, "no_code", "code")
                         ELSE Continue(b, [r EXCEPT !.pc = "exchange"])
    /\ UNCHANGED <<db, started, nextState, nextID, now, ticks,
                   codec, pat>>

\* HandleCallback: oauthConfig.Exchange; ok = FALSE is the provider
\* rejecting the code.
Exchange(b, ok, token) ==
    /\ req[b].pc = "exchange"
    /\ IF ~ok
          THEN AuthFailed(b, "exchange")
          ELSE Continue(b, [req[b] EXCEPT !.pc = "userinfo", !.token = token])
    /\ UNCHANGED <<db, accepted, started, nextState, nextID, now, ticks,
                   codec, pat>>

\* handleGoogleCallback: GetGoogleUserInfo; ok = FALSE is a transport
\* error, a non-200 status or an undecodable body.
FetchGoogleUserInfo(b, ok, profile) ==
    /\ req[b].pc = "userinfo"
    /\ req[b].provider = "google"
    /\ IF ~ok
          THEN AuthFailed(b, "userinfo")
          ELSE Continue(b, [req[b] EXCEPT
                                !.pc = "check_profile", !.info = profile,
                                !.rawEmail = profile.Email])
    /\ UNCHANGED <<db, accepted, started, nextState, nextID, now, ticks,
                   codec, pat>>

\* handleGithubCallback: GetGithubUserInfo, the user endpoint answering with
\* profile and, for a profile without e-mail, the e-mail list endpoint
\* answering with answer.
FetchGithubUserInfo(b, ok, profile, answer) ==
    /\ req[b].pc = "userinfo"
    /\ req[b].provider = "github"
    /\ profile.Email # "" => answer = IdleReq.emails
    /\ LET info == GetGithubUserInfo(profile, answer)
       IN  IF ~ok
              THEN AuthFailed(b, "userinfo")
              ELSE Continue(b, [req[b] EXCEPT
                                    !.pc = "check_profile", !.info = info,
                                    !.rawEmail = profile.Email,
                                    !.emails = answer])
    /\ UNCHANGED <<db, accepted, started, nextState, nextID, now, ticks,
                   codec, pat>>

\* handle<P>Callback: the profile is rejected (Google: e-mail not verified,
\* GitHub: no e-mail) or looked up.
CheckProfile(b) ==
    /\ req[b].pc = "check_profile"
    /\ IF ProfileRejected(req[b].provider, req[b].info)
          THEN AuthFailed(b, "email")
          ELSE Continue(b, [req[b] EXCEPT !.pc = "find_account",
                                          !.rawEmail = IdleReq.rawEmail,
                                          !.emails = IdleReq.emails])
    /\ UNCHANGED <<db, accepted, started, nextState, nextID, now, ticks,
                   codec, pat>>

\* The account table of a provider.
AccountTable(provider) ==
    IF provider = "google" THEN google_account ELSE github_account

\* The account tables after provider's table became tbl.
SetAccountTable(provider, tbl) ==
    IF provider = "google"
       THEN google_account' = tbl /\ UNCHANGED github_account
       ELSE github_account' = tbl /\ UNCHANGED google_account

\* handle<P>Callback: <p>AccountRepo.FindByProviderAccountID.  dbOK = FALSE
\* is a failure of the statement other than "no rows".
LookupAccount(b, dbOK) ==
    /\ req[b].pc = "find_account"
    /\ LET r == req[b]
           rows == accountRepo_FindByProviderAccountID(
                       AccountTable(r.provider), r.provider,
                       ProviderAccountID(r.provider, r.info))
       IN  IF ~dbOK
              THEN AuthFailed(b, "db")
              ELSE IF rows # {}
                      THEN \E a \in rows :
                             Continue(b, [r EXCEPT !.pc = "find_user",
                                                   !.account = {a}])
                      ELSE Continue(b, [r EXCEPT !.pc = "find_by_email"])
    /\ UNCHANGED <<db, accepted, started, nextState, nextID, now, ticks,
                   codec, pat>>

\* Returning path: userRepo.FindByID of the account's owner, whose name and
\* picture are refreshed from the profile.
LoadUser(b, dbOK) ==
    /\ req[b].pc = "find_user"
    /\ LET r == req[b]
           a == CHOOSE a \in r.account : TRUE
           rows == userRepo_FindByID(users, a.user_id)
       IN  IF ~dbOK \/ rows = {}
              THEN AuthFailed(b, "db")
              ELSE \E u \in rows :
                     Continue(b, [r EXCEPT
                                    !.pc = "update_user",
                                    !.user = {RefreshUser(r.provider, u, r.info)}])
    /\ UNCHANGED <<db, accepted, started, nextState, nextID, now, ticks,
                   codec, pat>>

\* Returning path: userRepo.Update, then the account is refreshed from the
\* new token.
UpdateUser(b, dbOK) ==
    /\ req[b].pc = "update_user"
    /\ LET r == req[b]
           u == CHOOSE u \in r.user : TRUE
           a == CHOOSE a \in r.account : TRUE
       IN  IF ~dbOK \/ userRepo_FindByID(users, u.id) = {}
              THEN AuthFailed(b, "db") /\ UNCHANGED users
              ELSE /\ users' = userRepo_Update(users, u)
                   /\ Continue(b, [r EXCEPT
                                     !.pc = "update_account",
                                     !.account = {RefreshAccount(a, r.token)}])
    /\ UNCHANGED <<google_account, github_account, accepted, started,
                   nextState, nextID, now, ticks,
                   codec, pat>>

\* Returning path: <p>AccountRepo.Update; on success HandleCallback returns
\* the user and the handler saves the session.
UpdateAccount(b, dbOK, saveOK) ==
    /\ req[b].pc = "update_account"
    /\ LET r == req[b]
           u == CHOOSE u \in r.user : TRUE
           a == CHOOSE a \in r.account : TRUE
           tbl == AccountTable(r.provider)
       IN  IF ~dbOK \/ ~(\E x \in tbl : SameKey(x, a))
              THEN /\ AuthFailed(b, "db")
                   /\ UNCHANGED <<google_account, github_account>>
              ELSE /\ SetAccountTable(r.provider,
                          IF r.provider = "google"
                             THEN googleAccountRepo_Update(tbl, a)
                             ELSE githubAccountRepo_Update(tbl, a))
                   /\ SaveSession(b, r, u, saveOK)
    /\ UNCHANGED <<users, accepted, started, nextState, nextID, now, ticks,
                   codec, pat>>

\* First login via the provider: userRepo.FindByEmail; when no user has the
\* e-mail a model.User with a new uuid is built.
LookupUserByEmail(b, dbOK) ==
    /\ req[b].pc = "find_by_email"
    /\ LET r == req[b]
           rows == userRepo_FindByEmail(users, r.info.Email)
       IN  IF ~dbOK
              THEN AuthFailed(b, "db") /\ UNCHANGED nextID
              ELSE IF rows # {}
                      THEN /\ \E u \in rows :
                                Continue(b, [r EXCEPT !.pc = "create_account",
                                                      !.user = {u}])
                           /\ UNCHANGED nextID
                      ELSE /\ nextID' = nextID + 1
                           /\ Continue(b, [r EXCEPT
                                  !.pc = "create_user",
                                  !.user = {NewUser(nextID', r.provider, r.info)}])
    /\ UNCHANGED <<db, accepted, started, nextState, now, ticks,
                   codec, pat>>

\* First login: userRepo.Create.  A violated constraint is an error like
\* any other.
CreateUser(b, dbOK) ==
    /\ req[b].pc = "create_user"
    /\ LET r == req[b]
           u == CHOOSE u \in r.user : TRUE
       IN  IF ~dbOK
              THEN AuthFailed(b, "db") /\ UNCHANGED users
              ELSE IF ~UsersInsertOK(users, u)
                      THEN AuthFailed(b, "unique") /\ UNCHANGED users
                      ELSE /\ users' = users \cup {u}
                           /\ Continue(b, [r EXCEPT !.pc = "create_account"])
    /\ UNCHANGED <<google_account, github_account, accepted, started,
                   nextState, nextID, now, ticks,
                   codec, pat>>

\* First login via the provider: <p>AccountRepo.Create of an account owned
\* by the user found or created; on success HandleCallback returns the user
\* and the handler saves the session.
CreateAccount(b, dbOK, saveOK) ==
    /\ req[b].pc = "create_account"
    /\ LET r == req[b]
           u == CHOOSE u \in r.user : TRUE
           a == NewAccount(r.provider, u.id, r.info, r.token)
           tbl == AccountTable(r.provider)
       IN  IF ~dbOK
              THEN /\ AuthFailed(b, "db")
                   /\ UNCHANGED <<google_account, github_account>>
              ELSE IF ~AccountInsertOK(tbl, users, a)
                      THEN /\ AuthFailed(b, "unique")
                           /\ UNCHANGED <<google_account, github_account>>
                      ELSE /\ SetAccountTable(r.provider, tbl \cup {a})
                           /\ SaveSession(b, r, u, saveOK)
    /\ UNCHANGED <<users, accepted, started, nextState, nextID, now, ticks,
                   codec, pat>>

\* Logout: the session is saved with MaxAge -1, which makes the browser
\* discard the cookie; saveOK = FALSE is session.Save returning an error.
Logout(b, saveOK) ==
    /\ IF saveOK
          THEN /\ cookie' = [cookie EXCEPT ![b] = EmptyValues]
               /\ resp' = Response(b, "Logout", 200, "", "")
          ELSE /\ UNCHANGED cookie
               /\ resp' = Response(b, "Logout", 500, "", "save")
    /\ UNCHANGED <<db, req, accepted, started, nextState, nextID, now,
                   ticks,
                   codec, pat>>

\* Me: 401 without a user id; 401 when expires_at is missing or passed,
\* after the session is saved with MaxAge -1 to make the browser discard
\* the cookie (saveOK = FALSE is session.Save returning an error, which Me
\* ignores); else the user is looked up (500 when that fails).
Me(b, dbOK, saveOK) ==
    /\ LET values == cookie[b]
           rows == IF sessionKeyUserID \in DOMAIN values
                      THEN userRepo_FindByID(users, values[sessionKeyUserID])
                      ELSE {}
       IN  IF sessionKeyUserID \notin DOMAIN values
              THEN /\ resp' = Response(b, "Me", 401, "", "user_id")
                   /\ UNCHANGED cookie
              ELSE IF \/ sessionKeyExpiresAt \notin DOMAIN values
                      \/ now > values[sessionKeyExpiresAt]
                      THEN /\ resp' = Response(b, "Me", 401, "", "expired")
                           /\ cookie' = IF saveOK
                                            THEN [cookie EXCEPT
                                                     ![b] = EmptyValues]
                                            ELSE cookie
                      ELSE IF ~dbOK \/ rows = {}
                              THEN /\ resp' = Response(b, "Me", 500, "", "db")
                                   /\ UNCHANGED cookie
                              ELSE /\ \E u \in rows :
                                        resp' = [Response(b, "Me", 200, "", "")
                                                   EXCEPT !.user_id = u.id]
                                   /\ UNCHANGED cookie
    /\ UNCHANGED <<db, req, accepted, started, nextState, nextID, now,
                   ticks,
                   codec, pat>>

\* A faulty IsExpired: the comparison is the wrong way round.
IsExpired_Reversed(values, t) ==
    \/ sessionKeyExpiresAt \notin DOMAIN values
    \/ t < values[sessionKeyExpiresAt]

\* Session.IsExpired at time t: expired when expires_at is missing, or when
\* t is after it.
IsExpired(values, t) ==
    \/ sessionKeyExpiresAt \notin DOMAIN values
    \/ t > values[sessionKeyExpiresAt]

\* Session.GetString(user_id) fails or returns the empty string.
NoUserID(values) ==
    \/ sessionKeyUserID \notin DOMAIN values
    \/ values[sessionKeyUserID] = 0

\* A faulty Passed: the next handler runs without a user id in its context.
Passed_Anonymous(b, handler, user_id) == Response(b, handler, 0, "", "")

\* The middleware hands the request to the next handler: status 0, no
\* response written; user_id is the id put in the request's context, 0 when
\* none is.
Passed(b, handler, user_id) ==
    [Response(b, handler, 0, "", "") EXCEPT !.user_id = user_id]

\* AuthMiddleware.RequireAuth: 401 without a user id; 401 and the cookie
\* deleted when the session is expired; else the next handler runs with the
\* user id in its context.
RequireAuth(b) ==
    /\ LET values == cookie[b]
       IN  IF NoUserID(values)
              THEN /\ resp' = Response(b, "RequireAuth", 401, "", "user_id")
                   /\ UNCHANGED cookie
              ELSE IF IsExpired(values, now)
                      THEN /\ resp' = Response(b, "RequireAuth", 401, "",
                                               "expired")
                           /\ cookie' = [cookie EXCEPT ![b] = EmptyValues]
                      ELSE /\ resp' = Passed(b, "RequireAuth",
                                             values[sessionKeyUserID])
                           /\ UNCHANGED cookie
    /\ UNCHANGED <<db, req, accepted, started, nextState, nextID, now,
                   ticks,
                   codec, pat>>

\* AuthMiddleware.OptionalAuth: the next handler always runs, with the user
\* id in its context when the session has one and is not expired.
OptionalAuth(b) ==
    /\ LET values == cookie[b]
       IN  resp' = IF NoUserID(values) \/ IsExpired(values, now)
                      THEN Passed(b, "OptionalAuth", 0)
                      ELSE Passed(b, "OptionalAuth", values[sessionKeyUserID])
    /\ UNCHANGED <<db, cookie, req, accepted, started, nextState, nextID,
                   now, ticks,
                   codec, pat>>

\* model.Session as GetSessionFromRequest builds it from the session values.
\* A string value that is missing reads as the empty string.
ModelSession(values) ==
    LET String(k) == IF k \in DOMAIN values THEN values[k] ELSE ""
    IN  [UserID |-> values[sessionKeyUserID],
         Email |-> String(sessionKeyEmail),
         Name |-> String(sessionKeyName),
         Picture |-> String(sessionKeyPicture),
         ExpiresAt |-> values[sessionKeyExpiresAt]]

\* AuthHandler.GetSessionFromRequest: no session without a user id, or when
\* expires_at is missing or passed; else the session of the cookie.
GetSessionFromRequest(b) ==
    /\ LET values == cookie[b]
       IN  resp' = IF \/ NoUserID(values)
                      \/ sessionKeyExpiresAt \notin DOMAIN values
                      \/ now > values[sessionKeyExpiresAt]
                      THEN Response(b, "GetSessionFromRequest", 0, "", "")
                      ELSE [Response(b, "GetSessionFromRequest", 0, "", "")
                               EXCEPT !.session = {ModelSession(values)}]
    /\ UNCHANGED <<db, cookie, req, accepted, started, nextState, nextID,
                   now, ticks,
                   codec, pat>>

\* Time passes.
Tick(d) ==
    /\ ticks < MaxTicks
    /\ ticks' = ticks + 1
    /\ now' = now + d
    /\ resp' = NoResponse
    /\ UNCHANGED <<db, cookie, req, accepted, started, nextState, nextID,
                   codec, pat>>

\* Outcomes of a statement sent to the database, of a session.Save.
DBOutcomes == BOOLEAN

SaveOutcomes == BOOLEAN

\* The OAuth flow: the login and callback handlers with the use case, the
\* gateway and the repositories under them.
NextOAuth ==
    \/ \E b \in Browsers, p \in Providers, saveOK \in SaveOutcomes :
          Login(b, p, saveOK)
    \/ \E b \in Browsers, p \in Providers, s \in 0..MaxLogins, c \in Codes,
          https \in BOOLEAN : Callback(b, p, s, c, https)
    \/ \E b \in Browsers : ValidateState(b)
    \/ \E b \in Browsers, ok \in BOOLEAN, t \in Tokens : Exchange(b, ok, t)
    \/ \E b \in Browsers, ok \in BOOLEAN, g \in GoogleProfiles :
          FetchGoogleUserInfo(b, ok, g)
    \/ \E b \in Browsers, ok \in BOOLEAN, g \in GithubProfiles,
          a \in GithubEmailAnswers : FetchGithubUserInfo(b, ok, g, a)
    \/ \E b \in Browsers : CheckProfile(b)
    \/ \E b \in Browsers, dbOK \in DBOutcomes : LookupAccount(b, dbOK)
    \/ \E b \in Browsers, dbOK \in DBOutcomes : LoadUser(b, dbOK)
    \/ \E b \in Browsers, dbOK \in DBOutcomes : UpdateUser(b, dbOK)
    \/ \E b \in Browsers, dbOK \in DBOutcomes, saveOK \in SaveOutcomes :
          UpdateAccount(b, dbOK, saveOK)
    \/ \E b \in Browsers, dbOK \in DBOutcomes : LookupUserByEmail(b, dbOK)
    \/ \E b \in Browsers, dbOK \in DBOutcomes : CreateUser(b, dbOK)
    \/ \E b \in Browsers, dbOK \in DBOutcomes, saveOK \in SaveOutcomes :
          CreateAccount(b, dbOK, saveOK)

\* The handlers of an established session, and the clock.
NextSession ==
    \/ \E b \in Browsers, saveOK \in SaveOutcomes : Logout(b, saveOK)
    \/ \E b \in Browsers, dbOK \in DBOutcomes, saveOK \in SaveOutcomes :
          Me(b, dbOK, saveOK)
    \/ \E b \in Browsers : RequireAuth(b)
    \/ \E b \in Browsers : OptionalAuth(b)
    \/ \E b \in Browsers : GetSessionFromRequest(b)
    \/ \E d \in {sessionMaxAge, sessionMaxAge + 1} : Tick(d)

Next == NextOAuth \/ NextSession

Spec == Init /\ [][Next]_vars

\* The OAuth flow alone.
SpecOAuth == Init /\ [][NextOAuth]_vars

\* The browsers of the session flow.
SessionBrowsers == {"b1"}

\* The session flow: the logins and callbacks of one browser, the handlers
\* and the middleware that read its session, and the clock.
NextSessionFlow ==
    \/ \E b \in SessionBrowsers, p \in Providers, saveOK \in SaveOutcomes :
          Login(b, p, saveOK)
    \/ \E b \in SessionBrowsers, p \in Providers, s \in 0..MaxLogins,
          c \in Codes, https \in BOOLEAN : Callback(b, p, s, c, https)
    \/ \E b \in SessionBrowsers : ValidateState(b)
    \/ \E b \in SessionBrowsers, ok \in BOOLEAN, t \in Tokens :
          Exchange(b, ok, t)
    \/ \E b \in SessionBrowsers, ok \in BOOLEAN, g \in GoogleProfiles :
          FetchGoogleUserInfo(b, ok, g)
    \/ \E b \in SessionBrowsers, ok \in BOOLEAN, g \in GithubProfiles,
          a \in GithubEmailAnswers : FetchGithubUserInfo(b, ok, g, a)
    \/ \E b \in SessionBrowsers : CheckProfile(b)
    \/ \E b \in SessionBrowsers, dbOK \in DBOutcomes : LookupAccount(b, dbOK)
    \/ \E b \in SessionBrowsers, dbOK \in DBOutcomes : LoadUser(b, dbOK)
    \/ \E b \in SessionBrowsers, dbOK \in DBOutcomes : UpdateUser(b, dbOK)
    \/ \E b \in SessionBrowsers, dbOK \in DBOutcomes,
          saveOK \in SaveOutcomes : UpdateAccount(b, dbOK, saveOK)
    \/ \E b \in SessionBrowsers, dbOK \in DBOutcomes :
          LookupUserByEmail(b, dbOK)
    \/ \E b \in SessionBrowsers, dbOK \in DBOutcomes : CreateUser(b, dbOK)
    \/ \E b \in SessionBrowsers, dbOK \in DBOutcomes,
          saveOK \in SaveOutcomes : CreateAccount(b, dbOK, saveOK)
    \/ \E b \in SessionBrowsers, saveOK \in SaveOutcomes : Logout(b, saveOK)
    \/ \E b \in SessionBrowsers, dbOK \in DBOutcomes,
          saveOK \in SaveOutcomes : Me(b, dbOK, saveOK)
    \/ \E b \in SessionBrowsers : RequireAuth(b)
    \/ \E b \in SessionBrowsers : OptionalAuth(b)
    \/ \E b \in SessionBrowsers : GetSessionFromRequest(b)
    \/ \E d \in {sessionMaxAge, sessionMaxAge + 1} : Tick(d)

SpecSession == Init /\ [][NextSessionFlow]_vars

\* -------------------------------------------------- the session store alone
\* The secrets a store is made with, the session values saved, the bytes a
\* client puts in place of one of its cookie's.
Secrets == {Bytes("k1"), Bytes("k2")}

CodecKeyUserID == Bytes(sessionKeyUserID)

CodecKeyExpiresAt == Bytes(sessionKeyExpiresAt)

SessionValues ==
    {EmptyValues,
     SetValue(EmptyValues, CodecKeyUserID, GoString(Bytes("u1"))),
     SetValue(EmptyValues, CodecKeyExpiresAt, GoInt64(sessionMaxAge)),
     SetValue(SetValue(EmptyValues, CodecKeyUserID, GoString(Bytes("u1"))),
              CodecKeyExpiresAt, GoInt64(sessionMaxAge)),
     SetValue(SetValue(EmptyValues, CodecKeyUserID, GoString(Bytes("a\"\\"))),
              CodecKeyExpiresAt, GoInt64(0)),
     SetValue(SetValue(EmptyValues, CodecKeyUserID, GoString(Bytes(""))),
              CodecKeyExpiresAt, GoInt64(-1))}

TamperBytes == {33, 46, 65, 66}

\* Cookie values that no encode made: empty, without a delimiter, and
\* signed with key over what is not base64 or not JSON.
MalformedCookies(key) ==
    LET Signed(encoded) == sign(key, encoded) \o <<46>> \o encoded
    IN  {<<>>, <<65, 66>>, <<46>>,
         Signed(<<33>>), Signed(<<65>>),
         Signed(B64Encode(Bytes("{"))),
         Signed(B64Encode(Bytes("{\"user_id\":")))}

InitCodec == \E key \in Secrets : InitWith(key)

\* CookieStore.Save: the browser's cookie becomes the encoded session.
CookieStoreSave(values) ==
    /\ saved' = values
    /\ jar' = {encode(secret, values)}
    /\ got' = {}
    /\ UNCHANGED <<db, cookie, req, resp, accepted, started, nextState,
                   nextID, now, ticks, pat, secret>>

\* CookieStore.Delete: the browser discards the cookie.
CookieStoreDelete ==
    /\ jar' = {}
    /\ got' = {}
    /\ UNCHANGED <<db, cookie, req, resp, accepted, started, nextState,
                   nextID, now, ticks, pat, secret, saved>>

\* CookieStore.Get on a request with the browser's cookie.
CookieStoreGet ==
    /\ got' = {Get(secret, jar)}
    /\ UNCHANGED <<db, cookie, req, resp, accepted, started, nextState,
                   nextID, now, ticks, pat, secret, saved, jar>>

\* The client changes one byte of the cookie the store gave it.
Tamper ==
    /\ jar = {encode(secret, saved)}
    /\ LET value == CHOOSE v \in jar : TRUE
       IN  \E i \in 1..Len(value) :
              \E c \in TamperBytes \ {value[i]} :
                 jar' = {[value EXCEPT ![i] = c]}
    /\ got' = {}
    /\ UNCHANGED <<db, cookie, req, resp, accepted, started, nextState,
                   nextID, now, ticks, pat, secret, saved>>

\* The client holds a cookie that a store with another secret encoded.
Forge(key, values) ==
    /\ key # secret
    /\ jar' = {encode(key, values)}
    /\ got' = {}
    /\ UNCHANGED <<db, cookie, req, resp, accepted, started, nextState,
                   nextID, now, ticks, pat, secret, saved>>

\* The client holds a cookie value that is not an encoded session.
Present(value) ==
    /\ jar' = {value}
    /\ got' = {}
    /\ UNCHANGED <<db, cookie, req, resp, accepted, started, nextState,
                   nextID, now, ticks, pat, secret, saved>>

NextCodec ==
    \/ \E values \in SessionValues : CookieStoreSave(values)
    \/ CookieStoreDelete
    \/ CookieStoreGet
    \/ Tamper
    \/ \E key \in Secrets, values \in SessionValues : Forge(key, values)
    \/ \E value \in MalformedCookies(secret) : Present(value)

SpecCodec == InitCodec /\ [][NextCodec]_vars

\* ------------------------------------------------ personal access token
\* SELECT ... FROM github_account WHERE user_id = $1.
githubAccountRepo_FindByUserID(tbl, userID) ==
    { a \in tbl : a.user_id = userID }

\* The personal access tokens a client sends; "" is no token (NULL in
\* pat_encrypted, an empty field in the request body).
PATValues == {"", "pat1"}

\* The PAT request ends with status.
PATAnswer(status, cause) ==
    /\ resp' = Response(pat.browser,
                        IF pat.op = "save" THEN "SavePAT" ELSE "DeletePAT",
                        status, "", cause)
    /\ pat' = [IdlePAT EXCEPT !.n = pat.n]

\* POST /api/v1/github/pat behind RequireAuth: GithubHandler.SavePAT with
\* the user id of the context; 400 for an empty token, else
\* GithubUsecase.SavePAT starts.
SavePAT(b, value) ==
    /\ pat.pc = "idle"
    /\ pat.n < MaxPATs
    /\ IF NoUserID(cookie[b]) \/ IsExpired(cookie[b], now)
          THEN RequireAuth(b)
          ELSE /\ IF value = ""
                     THEN /\ resp' = Response(b, "SavePAT", 400, "", "pat")
                          /\ pat' = [pat EXCEPT !.n = @ + 1]
                     ELSE /\ resp' = NoResponse
                          /\ pat' = [pat EXCEPT
                                       !.pc = "find", !.n = @ + 1,
                                       !.browser = b, !.op = "save",
                                       !.user_id = cookie[b][sessionKeyUserID],
                                       !.value = value]
               /\ UNCHANGED <<db, cookie, req, accepted, started, nextState,
                              nextID, now, ticks, codec>>

\* DELETE /api/v1/github/pat behind RequireAuth: GithubHandler.DeletePAT;
\* GithubUsecase.DeletePAT starts.
DeletePAT(b) ==
    /\ pat.pc = "idle"
    /\ pat.n < MaxPATs
    /\ IF NoUserID(cookie[b]) \/ IsExpired(cookie[b], now)
          THEN RequireAuth(b)
          ELSE /\ resp' = NoResponse
               /\ pat' = [pat EXCEPT
                            !.pc = "find", !.n = @ + 1,
                            !.browser = b, !.op = "delete",
                            !.user_id = cookie[b][sessionKeyUserID],
                            !.value = ""]
               /\ UNCHANGED <<db, cookie, req, accepted, started, nextState,
                              nextID, now, ticks, codec>>

\* SavePAT / DeletePAT: githubAccountRepo.FindByUserID, then PATEncrypted of
\* the loaded account is set (to &pat, to nil).
PATFindAccount(dbOK) ==
    /\ pat.pc = "find"
    /\ LET rows == githubAccountRepo_FindByUserID(github_account, pat.user_id)
       IN  IF ~dbOK \/ rows = {}
              THEN PATAnswer(500, "db")
              ELSE /\ \E a \in rows :
                        pat' = [pat EXCEPT
                                  !.pc = "update",
                                  !.account =
                                     {[a EXCEPT !.pat_encrypted = pat.value]}]
                   /\ resp' = NoResponse
    /\ UNCHANGED <<db, cookie, req, accepted, started, nextState, nextID, now,
                   ticks, codec>>

\* SavePAT / DeletePAT: githubAccountRepo.Update of the loaded account; 204
\* on success.
PATUpdateAccount(dbOK) ==
    /\ pat.pc = "update"
    /\ LET a == CHOOSE a \in pat.account : TRUE
       IN  IF ~dbOK \/ ~(\E x \in github_account : SameKey(x, a))
              THEN PATAnswer(500, "db") /\ UNCHANGED github_account
              ELSE /\ github_account' =
                         githubAccountRepo_Update(github_account, a)
                   /\ PATAnswer(204, "")
    /\ UNCHANGED <<users, google_account, cookie, req, accepted, started,
                   nextState, nextID, now, ticks, codec>>

\* One browser logging in through GitHub and saving or deleting its
\* personal access token.
NextPAT ==
    \/ \E b \in SessionBrowsers, saveOK \in SaveOutcomes :
          Login(b, "github", saveOK)
    \/ \E b \in SessionBrowsers, s \in 0..MaxLogins, c \in Codes,
          https \in BOOLEAN : Callback(b, "github", s, c, https)
    \/ \E b \in SessionBrowsers : ValidateState(b)
    \/ \E b \in SessionBrowsers, ok \in BOOLEAN, t \in Tokens :
          Exchange(b, ok, t)
    \/ \E b \in SessionBrowsers, ok \in BOOLEAN, g \in GithubProfiles,
          a \in GithubEmailAnswers : FetchGithubUserInfo(b, ok, g, a)
    \/ \E b \in SessionBrowsers : CheckProfile(b)
    \/ \E b \in SessionBrowsers, dbOK \in DBOutcomes : LookupAccount(b, dbOK)
    \/ \E b \in SessionBrowsers, dbOK \in DBOutcomes : LoadUser(b, dbOK)
    \/ \E b \in SessionBrowsers, dbOK \in DBOutcomes : UpdateUser(b, dbOK)
    \/ \E b \in SessionBrowsers, dbOK \in DBOutcomes,
          saveOK \in SaveOutcomes : UpdateAccount(b, dbOK, saveOK)
    \/ \E b \in SessionBrowsers, dbOK \in DBOutcomes :
          LookupUserByEmail(b, dbOK)
    \/ \E b \in SessionBrowsers, dbOK \in DBOutcomes : CreateUser(b, dbOK)
    \/ \E b \in SessionBrowsers, dbOK \in DBOutcomes,
          saveOK \in SaveOutcomes : CreateAccount(b, dbOK, saveOK)
    \/ \E b \in SessionBrowsers, v \in PATValues : SavePAT(b, v)
    \/ \E b \in SessionBrowsers : DeletePAT(b)
    \/ \E dbOK \in DBOutcomes : PATFindAccount(dbOK)
    \/ \E dbOK \in DBOutcomes : PATUpdateAccount(dbOK)

SpecPAT == Init /\ [][NextPAT]_vars

\* ------------------------------------------------- GitHub e-mail lookup
\* Every answer of the e-mail list endpoint with up to MaxEmails entries.
GithubEntries ==
    { GithubEmail(e, p, v) : e \in Emails, p \in BOOLEAN, v \in BOOLEAN }

AllGithubEmailAnswers ==
    { [ok |-> TRUE, emails |-> l] :
         l \in UNION { [1..n -> GithubEntries] : n \in 0..MaxEmails } }
        \cup { [ok |-> FALSE, emails |-> <<>>] }

\* b1 has logged in through GitHub and its callback has exchanged the code:
\* handleGithubCallback is about to call GetGithubUserInfo.
InitGithubEmail ==
    /\ users = {}
    /\ google_account = {}
    /\ github_account = {}
    /\ cookie = [b \in Browsers |->
                    IF b = "b1" THEN SetValue(EmptyValues, oauthStateKey, 1)
                                ELSE EmptyValues]
    /\ req = [b \in Browsers |->
                 IF b = "b1"
                    THEN [IdleReq EXCEPT
                            !.pc = "userinfo", !.provider = "github",
                            !.session = SetValue(EmptyValues, oauthStateKey, 1),
                            !.state = 1, !.code = "code",
                            !.token = CHOOSE t \in Tokens :
                                          t.AccessToken = "at1"]
                    ELSE IdleReq]
    /\ resp = NoResponse
    /\ accepted = {1}
    /\ started = 1
    /\ nextState = 1
    /\ nextID = 0
    /\ now = 0
    /\ ticks = 0
    /\ secret = Bytes("k1")
    /\ saved = EmptyValues
    /\ jar = {}
    /\ got = {}
    /\ pat = IdlePAT

NextGithubEmail ==
    \E ok \in BOOLEAN, profile \in GithubProfiles,
       answer \in AllGithubEmailAnswers :
        FetchGithubUserInfo("b1", ok, profile, answer)

SpecGithubEmail == InitGithubEmail /\ [][NextGithubEmail]_vars

\* ================================================================ claims
\* The callback of b leaves pc p in this step.
Leaves(b, p) == req[b].pc = p /\ req'[b].pc # p

\* The cookie of the request of b holds no pending state, or one that
\* differs from the query's state.
StateRefused(b) ==
    \/ oauthStateKey \notin DOMAIN req[b].session
    \/ req[b].session[oauthStateKey] = 0
    \/ req[b].session[oauthStateKey] # req[b].state

\* The account table of provider after the step.
AccountTableAfter(provider) ==
    IF provider = "google" THEN google_account' ELSE github_account'

\* The part of a cookie's values that makes an authenticated session.
SessionPart(values) ==
    [k \in DOMAIN values \ {oauthStateKey} |-> values[k]]

\* C1: a callback whose session holds no pending oauth_state, or whose
\* query state differs from the pending one, is answered with a redirect
\* carrying error=invalid_state and ends there: no table and no cookie
\* changes, and no callback is ever past the state check (where the gateway
\* and the repositories are called) with such a state.
C1_InvalidStateRejected ==
    /\ [](\A b \in Browsers :
            req[b].pc \notin {"idle", "validate"} => ~StateRefused(b))
    /\ [][\A b \in Browsers :
            (Leaves(b, "validate") /\ StateRefused(b)) =>
                /\ resp' = Response(b, CallbackHandler(req[b].provider), 307,
                                    "invalid_state", "state")
                /\ req'[b] = IdleReq
                /\ db' = db
                /\ cookie' = cookie]_vars

\* C1 witness: a GitHub callback was refused with invalid_state while its
\* browser holds a pending state (the query's state differed), after a user
\* had been created.
C1_Witness ==
    \E b \in Browsers :
        /\ resp = Response(b, "CallbackGithub", 307, "invalid_state", "state")
        /\ oauthStateKey \in DOMAIN cookie[b]
        /\ users # {}

C3_StateOneTime ==
    [][\A b \in Browsers :
        (Leaves(b, "validate") /\ req[b].state \in accepted) =>
            resp'.error = "invalid_state"]_vars

\* The steps at which HandleCallback reads or writes the tables.
RepositorySteps ==
    {"find_account", "find_user", "update_user", "update_account",
     "find_by_email", "create_user", "create_account"}

\* The primary keys of an account table.
Keys(tbl) == { <<a.provider, a.provider_account_id>> : a \in tbl }

\* The rows of the provider's table for the identity the callback of b has
\* fetched.
IdentityRows(b, tbl) ==
    { a \in tbl : a.provider_account_id =
                      ProviderAccountID(req[b].provider, req[b].info) }

\* The identity the callback of b has fetched (provider, external id,
\* e-mail) is linked already: its account exists and belongs to a user with
\* that e-mail.
IdentityLinked(b) ==
    /\ req[b].pc \in RepositorySteps
    /\ \E a \in IdentityRows(b, AccountTable(req[b].provider)), u \in users :
          a.user_id = u.id /\ u.email = req[b].info.Email

\* HandleCallback returns a user in this step: the callback of b ends with
\* the session saved, or with only the save failing.
Returns(b) ==
    /\ req[b].pc \in {"update_account", "create_account"}
    /\ req'[b] = IdleReq
    /\ resp'.browser = b
    /\ resp'.cause \in {"", "save"}

\* C4: linking is idempotent.  A callback for an identity (provider,
\* external id, verified e-mail) that is linked already takes the returning
\* path, which creates no user and no account, and when HandleCallback
\* returns, it returns the user the account belongs to: there is still
\* exactly one account for the identity and one user with its e-mail.
C4_LinkingIdempotent ==
    [][\A b \in Browsers : IdentityLinked(b) =>
        /\ Leaves(b, "find_account") =>
              req'[b].pc = "find_user" \/ resp'.cause = "db"
        /\ (/\ req[b].pc \in {"find_user", "update_user", "update_account"}
            /\ req'[b] # req[b]) =>
              /\ { u.id : u \in users' } = { u.id : u \in users }
              /\ Keys(google_account') = Keys(google_account)
              /\ Keys(github_account') = Keys(github_account)
        /\ (Leaves(b, "update_account") /\ Returns(b)) =>
              LET rows == IdentityRows(b, AccountTableAfter(req[b].provider))
              IN  /\ Cardinality(rows) = 1
                  /\ Cardinality({ u \in users' :
                                     u.email = req[b].info.Email }) = 1
                  /\ \A a \in rows, u \in req[b].user :
                        /\ u.id = a.user_id
                        /\ resp'.error = "" =>
                              cookie'[b][sessionKeyUserID] = a.user_id]_vars

\* C4 witness: both browsers hold a session of user 1 while there is one
\* user and one account, of Google identity g1: the identity has completed
\* two callbacks.
C4_Witness ==
    /\ \A b \in Browsers :
          /\ sessionKeyUserID \in DOMAIN cookie[b]
          /\ cookie[b][sessionKeyUserID] = 1
    /\ Cardinality(users) = 1
    /\ github_account = {}
    /\ Keys(google_account) = { <<"google", "g1">> }

\* C5: accounts are linked across providers by verified e-mail, in either
\* order.  A first login via a provider whose e-mail a user already has
\* goes on with that user, generating no new one, and when HandleCallback
\* returns on this path the only change is the new account, owned by the
\* user; there is one user with the e-mail.
C5_CrossProviderLinking ==
    [][\A b \in Browsers :
        LET known == { u \in users : u.email = req[b].info.Email } IN
        /\ (Leaves(b, "find_by_email") /\ known # {}) =>
              \/ resp'.cause = "db"
              \/ /\ req'[b].pc = "create_account"
                 /\ req'[b].user = known
                 /\ nextID' = nextID
        /\ (Leaves(b, "create_account") /\ Returns(b)) =>
              /\ users' = users
              /\ Cardinality(known) = 1
              /\ \E a \in AccountTableAfter(req[b].provider) :
                    /\ a.provider = req[b].provider
                    /\ a.provider_account_id =
                           ProviderAccountID(req[b].provider, req[b].info)
                    /\ { a.user_id } = { u.id : u \in req[b].user }
                    /\ AccountTableAfter(req[b].provider) =
                           AccountTable(req[b].provider) \cup {a}
              /\ req[b].provider = "google" => github_account' = github_account
              /\ req[b].provider = "github" => google_account' = google_account]_vars

\* C5 witness: the Google callback has just ended with a session, and the
\* one user there is owns a GitHub and a Google account.
C5_Witness ==
    /\ \E b \in Browsers : resp = LoggedIn(b, "Callback")
    /\ Cardinality(users) = 1
    /\ \E u \in users, g \in google_account, h \in github_account :
          g.user_id = u.id /\ h.user_id = u.id

\* C6: at all times no two users have the same e-mail and no two accounts
\* have the same (provider, provider_account_id).
C6_UniqueEmailAndIdentity ==
    /\ \A u1, u2 \in users : u1.email = u2.email => u1 = u2
    /\ \A a1, a2 \in google_account : SameKey(a1, a2) => a1 = a2
    /\ \A a1, a2 \in github_account : SameKey(a1, a2) => a1 = a2

\* C6 witness: an insert has just been refused as a uniqueness violation
\* while a user exists.
C6_Witness ==
    /\ resp.cause = "unique"
    /\ users # {}

\* C7: a first-time callback whose insert of the user meets a uniqueness
\* violation (a concurrent callback for the same new e-mail inserted first)
\* recovers from it: it does not end with the violation as its error.
C7_UniqueViolationRetried ==
    [][\A b \in Browsers :
        (/\ Leaves(b, "create_user")
         /\ \E u \in req[b].user, r \in users : r.email = u.email) =>
            resp'.cause # "unique"]_vars

\* C8: at all times a user owns at most one account of each provider.
C8_OneAccountPerProvider ==
    /\ \A a1, a2 \in google_account : a1.user_id = a2.user_id => a1 = a2
    /\ \A a1, a2 \in github_account : a1.user_id = a2.user_id => a1 = a2

\* C9: a Google callback whose profile has verified_email = false is
\* answered with error=auth_failed and ends there: no table and no cookie
\* changes, and no Google callback is ever at a repository step with such a
\* profile.
C9_GoogleUnverifiedRejected ==
    /\ [](\A b \in Browsers :
            (req[b].pc \in RepositorySteps /\ req[b].provider = "google") =>
                req[b].info.VerifiedEmail)
    /\ [][\A b \in Browsers :
            (/\ Leaves(b, "check_profile")
             /\ req[b].provider = "google"
             /\ ~req[b].info.VerifiedEmail) =>
                /\ resp' = Response(b, "Callback", 307, "auth_failed", "email")
                /\ req'[b] = IdleReq
                /\ db' = db
                /\ cookie' = cookie]_vars

\* C9 witness: a Google callback has just been refused for its profile,
\* leaving its browser without a session.
C9_Witness ==
    \E b \in Browsers :
        /\ resp = Response(b, "Callback", 307, "auth_failed", "email")
        /\ sessionKeyUserID \notin DOMAIN cookie[b]

\* The e-mail list endpoint gave the callback of b no verified address: the
\* call failed or no entry of the list is verified.
NoVerifiedEmail(b) ==
    \/ ~req[b].emails.ok
    \/ \A i \in 1..Len(req[b].emails.emails) : ~req[b].emails.emails[i].Verified

\* C10: a GitHub callback whose profile has no e-mail and whose e-mail list
\* has no verified entry, or could not be fetched, is answered with
\* error=auth_failed and ends there: no table and no cookie changes, and no
\* GitHub callback is ever at a repository step without an e-mail.
C10_GithubWithoutEmailRejected ==
    /\ [](\A b \in Browsers :
            (req[b].pc \in RepositorySteps /\ req[b].provider = "github") =>
                req[b].info.Email # "")
    /\ [][\A b \in Browsers :
            (/\ Leaves(b, "check_profile")
             /\ req[b].provider = "github"
             /\ req[b].rawEmail = ""
             /\ NoVerifiedEmail(b)) =>
                /\ resp' = Response(b, "CallbackGithub", 307, "auth_failed",
                                    "email")
                /\ req'[b] = IdleReq
                /\ db' = db
                /\ cookie' = cookie]_vars

\* C10 witness: a GitHub callback has just been refused for its profile,
\* leaving its browser without a session, while a user exists.
C10_Witness ==
    \E b \in Browsers :
        /\ resp = Response(b, "CallbackGithub", 307, "auth_failed", "email")
        /\ sessionKeyUserID \notin DOMAIN cookie[b]
        /\ users # {}

\* The cookie of b holds a session with a user id whose expiry instant is
\* strictly earlier than the current time.
Expired(b) ==
    /\ ~NoUserID(cookie[b])
    /\ sessionKeyExpiresAt \in DOMAIN cookie[b]
    /\ cookie[b][sessionKeyExpiresAt] < now

\* The response of the step is one that treats the session as absent: 401
\* of Me and RequireAuth, no user id in the context after OptionalAuth, no
\* session returned by GetSessionFromRequest.
TreatedAsAbsent ==
    /\ resp'.handler \in {"Me", "RequireAuth"} => resp'.status = 401
    /\ resp'.handler = "OptionalAuth" => resp'.user_id = 0
    /\ resp'.handler = "GetSessionFromRequest" => resp'.session = {}

Readers == {"Me", "RequireAuth", "OptionalAuth", "GetSessionFromRequest"}

\* b's request is read by one of the readers of the session in this step.
Reads(b) ==
    /\ resp' # resp
    /\ resp'.browser = b
    /\ resp'.handler \in Readers

\* C11: a session whose expiry instant is strictly earlier than the current
\* time is treated as absent by every reader: Me and RequireAuth answer 401,
\* OptionalAuth injects no user id, GetSessionFromRequest returns no session.
C11_ExpiredTreatedAsAbsent ==
    [][\A b \in Browsers : Expired(b) /\ Reads(b) => TreatedAsAbsent]_vars

\* OptionalAuth has run on an expired session and put no user id in the
\* context.
C11_Witness ==
    /\ resp.handler = "OptionalAuth"
    /\ resp.browser = "b1"
    /\ Expired("b1")
    /\ resp.user_id = 0

\* The cookie of b holds a session with a user id, and the current time is
\* not strictly before its expiry instant.
NotBeforeExpiry(b) ==
    /\ ~NoUserID(cookie[b])
    /\ sessionKeyExpiresAt \in DOMAIN cookie[b]
    /\ ~(now < cookie[b][sessionKeyExpiresAt])

\* The response of the step accepts the session as valid: 200 of Me, a user
\* id in the context after the middleware, a session returned by
\* GetSessionFromRequest.
AcceptedAsValid ==
    \/ resp'.handler = "Me" /\ resp'.status = 200
    \/ resp'.handler \in {"RequireAuth", "OptionalAuth"} /\ resp'.user_id # 0
    \/ resp'.handler = "GetSessionFromRequest" /\ resp'.session # {}

\* C12: a request is treated as authenticated only if the current time is
\* strictly before the session's expiry instant: at now = expires_at, and at
\* any later instant, no reader of the session accepts it.
C12_ValidOnlyBeforeExpiry ==
    [][\A b \in Browsers :
          NotBeforeExpiry(b) /\ Reads(b) => ~AcceptedAsValid]_vars

\* The browser holds the cookie that encode made of the saved values, and
\* Get has read it.
ReadIntact == jar = {encode(secret, saved)} /\ got # {}

\* C13 as stated: decoding with the same secret what encode produced returns
\* a session whose values equal the original map.
C13_RoundTripEqual ==
    ReadIntact => \A session \in got : session.values = saved

\* v read from the decoded values with the accessor of its type: GetString
\* for a string, GetInt64 for an integer.
ReadBack(values, key, v) ==
    IF v.type = "string"
       THEN GetString(values, key) = [ok |-> TRUE, val |-> v.val]
       ELSE GetInt64(values, key) = [ok |-> TRUE, val |-> v.val]

\* C13: decoding with the same secret what encode produced returns a
\* session with the keys of the original map, whose values read with
\* GetString and GetInt64 equal the original strings and integers.
C13_RoundTripThroughAccessors ==
    ReadIntact =>
        \A session \in got :
            /\ ~session.invalid
            /\ DOMAIN session.values = DOMAIN saved
            /\ \A key \in DOMAIN saved :
                   ReadBack(session.values, key, saved[key])

\* A session with a user id that holds a quote and a backslash, and an
\* expiry, has been saved and read back.
C13_Witness ==
    /\ ReadIntact
    /\ CodecKeyUserID \in DOMAIN saved
    /\ CodecKeyExpiresAt \in DOMAIN saved
    /\ saved[CodecKeyUserID].val = Bytes("a\"\\")

\* The positions at which value differs from the cookie that encode made of
\* the saved values.
ChangedBytes(value) ==
    LET original == encode(secret, saved)
    IN  IF Len(value) # Len(original)
           THEN 1..Len(value)
           ELSE {i \in 1..Len(value) : value[i] # original[i]}

\* The browser's cookie is the one encode made, with one byte changed.
Tampered == \E value \in jar : Cardinality(ChangedBytes(value)) = 1

\* The browser's cookie was encoded with another secret than the store's.
ForeignSigned ==
    \E key \in Secrets \ {secret}, values \in SessionValues :
        jar = {encode(key, values)}

\* C14: a cookie made by encode with one byte changed (in the signature,
\* the delimiter or the payload), or one signed with a different secret, is
\* refused by decode with an error, and no value of it is returned.
C14_TamperEvident ==
    Tampered \/ ForeignSigned =>
        /\ \A value \in jar : decode(secret, value).err # ""
        /\ \A session \in got :
               session.invalid /\ session.values = EmptyValues

\* A cookie with one byte of its payload changed has been read.
C14_Witness ==
    /\ got # {}
    /\ Tampered
    /\ \E value \in jar :
           \E i \in ChangedBytes(value) : i > FirstDot(value)

\* The parts of a cookie value around its first ".".
SignaturePart(value) == SubSeq(value, 1, FirstDot(value) - 1)

PayloadPart(value) == SubSeq(value, FirstDot(value) + 1, Len(value))

\* value has no delimiter, or a signature that is not the store's for its
\* payload.
Unverified(value) ==
    \/ FirstDot(value) = 0
    \/ SignaturePart(value) # sign(secret, PayloadPart(value))

\* The payload of value is not base64, or not the base64 of JSON.
Undecodable(value) ==
    LET data == B64Decode(PayloadPart(value))
    IN  ~data.ok \/ ~Unmarshal(data.val).ok

\* C15: CookieStore.Get never returns an error; without a cookie, or with
\* one that is malformed, fails the signature check or fails base64 or
\* JSON decoding, it returns a fresh session with no values.
C15_GetFailsOpen ==
    \A session \in got :
        /\ session.err = ""
        /\ (jar = {} \/ \E value \in jar :
                            Unverified(value) \/ Undecodable(value))
              => session.values = EmptyValues

\* Get has read a cookie with the store's signature over a payload that is
\* base64 but not JSON.
C15_Witness ==
    /\ got # {}
    /\ \E value \in jar :
           /\ ~Unverified(value)
           /\ B64Decode(PayloadPart(value)).ok
           /\ Undecodable(value)

\* Me answers b in this step.
MeAnswers(b) ==
    /\ resp' # resp
    /\ resp'.browser = b
    /\ resp'.handler = "Me"

\* C16: GET /auth/me with a session that carries a user id and is expired
\* answers 401 and has the browser discard the session cookie in the same
\* response, without looking up the user.
C16_MeExpiredClearsCookie ==
    [][\A b \in Browsers :
          Expired(b) /\ MeAnswers(b) =>
              /\ resp'.status = 401
              /\ resp'.cause = "expired"
              /\ cookie'[b] = EmptyValues]_vars

\* Logout answers b in this step.
LogoutAnswers(b) ==
    /\ resp'.browser = b
    /\ resp'.handler = "Logout"
    /\ \/ resp' # resp
       \/ cookie' # cookie

\* C17: Logout answers 200 and deletes the session cookie whatever the
\* inbound session is, a second logout included; /auth/me after it answers
\* 401.
C17_LogoutAlwaysSucceeds ==
    [][\A b \in Browsers :
          /\ LogoutAnswers(b) =>
                 resp'.status = 200 /\ cookie'[b] = EmptyValues
          /\ (resp.handler = "Logout" /\ resp.browser = b /\ MeAnswers(b))
                 => resp'.status = 401]_vars

\* The error parameter that the checks of the callback of b, taken in their
\* order, give the redirect that ends it in this step: the state, then the
\* code, then HandleCallback (exchange, profile, linking), then the save of
\* the session, after which the cookie is as before when it failed.
FirstFailingCheck(b) ==
    LET r == req[b]
    IN  IF StateRefused(b) THEN "invalid_state"
        ELSE IF r.code = "" THEN "no_code"
        ELSE IF ~Returns(b) THEN "auth_failed"
        ELSE IF cookie'[b] = cookie[b] THEN "session_failed"
        ELSE ""

\* C18: every callback ends in one response, a 307 redirect, never a 5xx,
\* whose error parameter is that of the first failing check in the order
\* state (invalid_state), code (no_code), exchange, profile fetch or
\* identity linking (auth_failed), cookie write (session_failed), and none
\* when no check fails.
C18_CallbackRedirects ==
    [][\A b \in Browsers :
          LET r == req[b]
          IN  /\ (req'[b].pc # r.pc /\ req'[b].pc # "idle")
                    => resp' = NoResponse
              /\ (r.pc # "idle" /\ req'[b].pc = "idle")
                    => /\ resp'.browser = b
                       /\ resp'.handler = CallbackHandler(r.provider)
                       /\ resp'.status = 307
                       /\ resp'.error = FirstFailingCheck(b)
              /\ (r.pc \notin {"idle", "validate"})
                    => ~StateRefused(b) /\ r.code # ""]_vars

\* A callback has passed every check but the last: the session could not be
\* saved and the redirect says session_failed.
C18_Witness ==
    /\ resp.handler \in {"Callback", "CallbackGithub"}
    /\ resp.status = 307
    /\ resp.error = "session_failed"
    /\ req[resp.browser].pc = "idle"

\* The callback of b ends in this step with the session saved.
Succeeds(b) == Returns(b) /\ resp'.cause = ""

\* The account of the identity of the callback of b, after the step.
LinkedAccounts(b) ==
    {a \in AccountTableAfter(req[b].provider) :
        /\ a.provider = req[b].provider
        /\ a.provider_account_id =
              ProviderAccountID(req[b].provider, req[b].info)}

\* C19: after a successful callback the session in the cookie holds the
\* linked user's id, e-mail, display name and avatar URL and an expiry of
\* the callback's time plus 7 days, and no pending state; the response is a
\* redirect to the front end without an error parameter; the user is in
\* users and owns the account of the identity.  On a first login the user
\* and the account are new rows.
C19_SessionOfLinkedUser ==
    [][\A b \in Browsers :
          LET r == req[b]
              u == CHOOSE u \in r.user : TRUE
          IN  /\ Succeeds(b) =>
                   /\ cookie'[b] =
                         [k \in {sessionKeyUserID, sessionKeyEmail,
                                 sessionKeyName, sessionKeyPicture,
                                 sessionKeyExpiresAt} |->
                             CASE k = sessionKeyUserID -> u.id
                               [] k = sessionKeyEmail -> u.email
                               [] k = sessionKeyName -> u.name
                               [] k = sessionKeyPicture -> u.image_url
                               [] k = sessionKeyExpiresAt ->
                                     now + sessionMaxAge]
                   /\ resp'.browser = b
                   /\ resp'.handler = CallbackHandler(r.provider)
                   /\ resp'.status = 307
                   /\ resp'.error = ""
                   /\ u \in users'
                   /\ \E a \in LinkedAccounts(b) : a.user_id = u.id
              /\ (Succeeds(b) /\ r.pc = "create_account") =>
                   \A a \in LinkedAccounts(b) :
                       a \notin AccountTable(r.provider)
              /\ (Leaves(b, "create_user") /\ req'[b].pc = "create_account")
                   => u \notin users /\ users' = users \cup {u}]_vars

\* A first login through Google has succeeded after time has passed: the
\* cookie holds the session of the new user, who owns the new account.
C19_Witness ==
    /\ resp.browser = "b1"
    /\ resp.handler = "Callback"
    /\ resp.status = 307
    /\ resp.error = ""
    /\ now > 0
    /\ sessionKeyUserID \in DOMAIN cookie["b1"]
    /\ cookie["b1"][sessionKeyExpiresAt] = now + sessionMaxAge
    /\ Cardinality(users) = 1
    /\ Cardinality(google_account) = 1
    /\ \A u \in users : \A a \in google_account :
           a.user_id = u.id /\ cookie["b1"][sessionKeyUserID] = u.id

\* C20: on a successful callback the Secure flag of the session cookie
\* equals whether the request was HTTPS (directly or by X-Forwarded-Proto),
\* and its SameSite attribute is None when Secure is set and Lax otherwise.
C20_SecureMirrorsScheme ==
    [][\A b \in Browsers :
          Succeeds(b) =>
              /\ resp'.set_cookie # {}
              /\ \A options \in resp'.set_cookie :
                     /\ options.Secure = req[b].https
                     /\ options.SameSite =
                           IF options.Secure THEN "None" ELSE "Lax"]_vars

\* The returning path of the callback of b ends in this step: the account
\* update was executed and HandleCallback returns the user.
ReturningLoginEnds(b) == req[b].pc = "update_account" /\ Returns(b)

ReturningIdentity(b) ==
    /\ req[b].pc \in {"check_profile"} \cup RepositorySteps
    /\ IdentityRows(b, AccountTable(req[b].provider)) # {}

\* C22: the account is looked up by (provider, external id) first and the
\* rejection for an unverified or absent e-mail is applied on the not-found
\* path only: a callback for a returning identity is never rejected because
\* of the e-mail or the verified flag of its current profile.
C22_ReturningNeverRejectedForEmail ==
    [][\A b \in Browsers :
          ReturningIdentity(b) =>
              ~(resp'.browser = b /\ resp'.cause = "email")]_vars

\* Login / LoginGithub answers b with the redirect to provider p in this
\* step.
LoginRedirects(b, p) ==
    /\ nextState' # nextState
    /\ resp'.browser = b
    /\ resp'.handler = LoginHandler(p)
    /\ resp'.status = 307

\* The state tokens that are pending in a cookie or have been accepted.
KnownStates ==
    accepted \cup
    { cookie[c][oauthStateKey] :
         c \in {x \in Browsers : oauthStateKey \in DOMAIN cookie[x]} }

StillPending(b) ==
    /\ oauthStateKey \in DOMAIN cookie'[b]
    /\ cookie'[b][oauthStateKey] # 0

\* C24: a callback rejected with invalid_state ends the flow of its browser
\* session: after the rejection the session holds no pending oauth_state,
\* so that a later callback with the state that was issued is rejected too
\* until a new login.
C24_RejectionEndsPendingFlow ==
    [][\A b \in Browsers :
          (Leaves(b, "validate") /\ resp'.error = "invalid_state")
              => ~StillPending(b)]_vars

\* RequireAuth answers b in this step.
RequireAuthAnswers(b) ==
    resp'.browser = b /\ resp'.handler = "RequireAuth"

\* The session of b's cookie carries a non-empty user_id.
HasUserID(b) ==
    /\ sessionKeyUserID \in DOMAIN cookie[b]
    /\ cookie[b][sessionKeyUserID] # 0

\* The session of b's cookie is expired (now is after its expiry) or has no
\* expiry value.
ExpiredOrNoExpiry(b) ==
    \/ sessionKeyExpiresAt \notin DOMAIN cookie[b]
    \/ now > cookie[b][sessionKeyExpiresAt]

\* RequireAuth invokes the protected handler exactly when the session has a
\* user_id and is not expired, with that user_id in the context and the
\* cookie untouched; otherwise it answers 401 and injects nothing.
InvokedOnlyWhenAuthenticated(b) ==
    /\ resp'.status \in {0, 401}
    /\ resp'.status = 0 <=> (HasUserID(b) /\ ~ExpiredOrNoExpiry(b))
    /\ resp'.status = 0 =>
          /\ resp'.user_id = cookie[b][sessionKeyUserID]
          /\ cookie' = cookie
    /\ resp'.status = 401 => resp'.user_id = 0

\* C25 as stated: RequireAuth invokes the protected handler only for a
\* session with a non-empty user_id that is not expired, injecting that
\* user_id; in every other case it answers 401, and the cookie is deleted
\* when the session is expired or has no expiry value.
C25_CookieDeletedWheneverNoExpiry ==
    [][\A b \in SessionBrowsers :
          RequireAuthAnswers(b) =>
              /\ InvokedOnlyWhenAuthenticated(b)
              /\ (resp'.status = 401 /\ ExpiredOrNoExpiry(b))
                    => cookie'[b] = EmptyValues]_vars

\* C25, amended: as above, and the cookie is deleted when the session
\* carries a user_id and is expired or has no expiry value.
C25_RequireAuthGuards ==
    [][\A b \in SessionBrowsers :
          RequireAuthAnswers(b) =>
              /\ InvokedOnlyWhenAuthenticated(b)
              /\ (resp'.status = 401 /\ HasUserID(b) /\ ExpiredOrNoExpiry(b))
                    => cookie'[b] = EmptyValues]_vars

\* RequireAuth has answered 401 to the expired session of a logged-in user
\* and deleted the cookie.
C25_Witness ==
    /\ resp.browser = "b1"
    /\ resp.handler = "RequireAuth"
    /\ resp.status = 401
    /\ resp.cause = "expired"
    /\ users # {}
    /\ now > sessionMaxAge
    /\ cookie["b1"] = EmptyValues

\* GetGithubUserInfo returns to the callback of b in this step, the user
\* endpoint having answered.
GithubUserInfoFetched(b) ==
    /\ Leaves(b, "userinfo")
    /\ req[b].provider = "github"
    /\ req'[b].pc = "check_profile"

\* The entries of a list that are primary and verified, and that are
\* verified.
PrimaryVerifiedAt(list) ==
    { i \in DOMAIN list : list[i].Primary /\ list[i].Verified }

VerifiedAt(list) == { i \in DOMAIN list : list[i].Verified }

\* C26: for a GitHub profile without e-mail the e-mail used is that of the
\* first entry of the e-mail list that is primary and verified when there
\* is one, else that of the first verified entry, else the lookup fails and
\* the profile stays without e-mail; an unverified entry is never chosen;
\* a profile with an e-mail keeps it and the list is not consulted.
C26_GithubEmailSelection ==
    [][\A b \in Browsers :
          GithubUserInfoFetched(b) =>
              LET raw == req'[b].rawEmail
                  answer == req'[b].emails
                  list == answer.emails
                  email == req'[b].info.Email
                  pv == PrimaryVerifiedAt(list)
                  v == VerifiedAt(list)
              IN  /\ raw # "" => email = raw /\ answer = IdleReq.emails
                  /\ (raw = "" /\ ~answer.ok) => email = ""
                  /\ (raw = "" /\ answer.ok) =>
                        /\ pv # {} =>
                              \E i \in pv : /\ \A j \in pv : i <= j
                                            /\ email = list[i].Email
                        /\ (pv = {} /\ v # {}) =>
                              \E i \in v : /\ \A j \in v : i <= j
                                           /\ email = list[i].Email
                        /\ v = {} => email = ""
                        /\ email # "" =>
                              \E i \in v : list[i].Email = email]_vars

\* The list began with an unverified primary entry and a verified one for
\* b@x.com, and the primary and verified entry that came third was chosen.
C26_Witness ==
    /\ req["b1"].pc = "check_profile"
    /\ req["b1"].rawEmail = ""
    /\ req["b1"].emails =
          [ok |-> TRUE,
           emails |-> <<GithubEmail("b@x.com", TRUE, FALSE),
                        GithubEmail("b@x.com", FALSE, TRUE),
                        GithubEmail("a@x.com", TRUE, TRUE)>>]
    /\ req["b1"].info.Email = "a@x.com"

\* HandleCallback returns an error to the callback of b in this step, no
\* other callback being in flight.
HandleCallbackFails(b) ==
    /\ req[b].pc \in {"exchange", "userinfo", "check_profile"}
                        \cup RepositorySteps
    /\ resp'.browser = b
    /\ resp'.error = "auth_failed"
    /\ \A c \in Browsers \ {b} : req[c].pc = "idle"

\* The users that own no account after the step.
UsersWithoutAccount ==
    { u \in users' :
         \A a \in google_account' \cup github_account' : a.user_id # u.id }

\* C27: HandleCallback is all-or-nothing with respect to the store: when it
\* returns an error, also when the account insert fails after the user
\* insert, the store holds nothing the call wrote, so no user is left
\* without any account.
C27_CallbackAllOrNothing ==
    [][\A b \in Browsers :
          HandleCallbackFails(b) => UsersWithoutAccount = {}]_vars

\* Every account of tbl is in tblAfter with the same owner, provider and
\* provider account id.
AccountsKept(tbl, tblAfter) ==
    \A a \in tbl :
       \E x \in tblAfter : /\ x.provider = a.provider
                           /\ x.provider_account_id = a.provider_account_id
                           /\ x.user_id = a.user_id

\* C28: no step of any login changes the id or the e-mail of an existing
\* user, or the owner, the provider or the provider account id of an
\* existing account, and none deletes a user or an account: logins refresh
\* only name, avatar, tokens and expiry.
C28_IdentityFieldsFrozen ==
    [][/\ \A u \in users :
             \E x \in users' : x.id = u.id /\ x.email = u.email
       /\ AccountsKept(google_account, google_account')
       /\ AccountsKept(github_account, github_account')]_vars

\* A GitHub identity that first logged in with the listed address b@x.com
\* has returned with the public address a@x.com and the name Ann H: the
\* name is refreshed, the e-mail is the first one.
C28_Witness ==
    \E u \in users, a \in github_account :
        /\ a.user_id = u.id
        /\ u.email = "b@x.com"
        /\ u.name = "Ann H"

\* The GitHub returning-login callback of b writes the account in this
\* step; a SavePAT / DeletePAT writes the account in this step.
CallbackWritesAccount(b) ==
    ReturningLoginEnds(b) /\ req[b].provider = "github"

PATWritesAccount == pat.pc = "update" /\ resp'.status = 204

\* C29: a GitHub returning-login callback and a concurrent SavePAT or
\* DeletePAT never lose each other's update, under every interleaving of
\* their read and write steps: the callback's write leaves the stored PAT
\* as it is, and the PAT's write leaves the stored tokens as they are, so
\* after both the account holds the callback's access token and the PAT
\* written or cleared.
C29_NoLostUpdate ==
    [][\A a \in github_account :
          \E x \in github_account' :
             /\ SameKey(x, a)
             /\ (\E b \in Browsers : CallbackWritesAccount(b))
                   => x.pat_encrypted = a.pat_encrypted
             /\ PATWritesAccount
                   => /\ x.access_token = a.access_token
                      /\ x.refresh_token = a.refresh_token
                      /\ x.expires_at = a.expires_at]_vars

\* Login / LoginGithub answers b in this step.
LoginAnswers(b) ==
    /\ nextState' # nextState
    /\ resp'.browser = b

\* The callback of b ends in this step with error=invalid_state, no_code or
\* auth_failed.
CallbackFails(b) ==
    /\ req[b].pc # "idle"
    /\ resp'.browser = b
    /\ resp'.error \in {"invalid_state", "no_code", "auth_failed"}

\* The cookie of b holds the session of a user that has not expired.
LoggedInSession(b) ==
    /\ HasUserID(b)
    /\ sessionKeyExpiresAt \in DOMAIN cookie[b]
    /\ now <= cookie[b][sessionKeyExpiresAt]

\* C30: starting or failing an OAuth flow does not log an authenticated
\* session out.  A login changes nothing in the cookie but oauth_state:
\* user_id, email, name, picture and expires_at stay; a callback that ends
\* with invalid_state, no_code or auth_failed writes no cookie; and
\* /auth/me with a cookie that holds a user's unexpired session never
\* answers 401 and, when it answers 200, returns that user.
C30_FlowKeepsSession ==
    [][\A b \in SessionBrowsers :
          /\ LoginAnswers(b) =>
                SessionPart(cookie'[b]) = SessionPart(cookie[b])
          /\ CallbackFails(b) => cookie'[b] = cookie[b]
          /\ (MeAnswers(b) /\ LoggedInSession(b)) =>
                /\ resp'.status \in {200, 500}
                /\ resp'.status = 200 =>
                      resp'.user_id = cookie[b][sessionKeyUserID]
                /\ cookie'[b] = cookie[b]]_vars

\* /auth/me has answered 200 with user 1 to b1, whose cookie holds the
\* session of user 1 and the pending state of a login started afterwards.
C30_Witness ==
    /\ resp.browser = "b1"
    /\ resp.handler = "Me"
    /\ resp.status = 200
    /\ resp.user_id = 1
    /\ cookie["b1"][sessionKeyUserID] = 1
    /\ oauthStateKey \in DOMAIN cookie["b1"]
    /\ cookie["b1"][oauthStateKey] = 2
    /\ started = 2

====
